---- MODULE Spec2Model ----
(***************************************************************************)
(* Model of shortygopher's storage subsystem:                              *)
(*   - URLStorage, the mutex-guarded in-memory map short id -> URLInfo     *)
(*     (internal/app/storage/urlstorage.go);                               *)
(*   - BatchFileSaver and LoadURLMappings, the batched snapshot writer and *)
(*     its decoder (internal/app/storage/osfile.go).                       *)
(* Every URLStorage method holds s.mu for its whole body, so each method   *)
(* is one atomic action.                                                   *)
(***************************************************************************)
EXTENDS Integers, Sequences, FiniteSets, TLC

\* ------------------------------------------------------------------ bounds

\* Number of short ids the callers draw from.
NumShortIDs == 2
\* Longest id list handed to DeleteURLs.
MaxDeleteLen == 2

\* Capacity of the bufio.Writer buffer, counted in the units file contents
\* are made of (an encoded line is two units, its newline one).
BufSize == 3

IDNames == <<"a", "b", "c", "d">>
ShortIDs == {IDNames[i] : i \in 1..NumShortIDs}
OriginalURLs == {"x", "y"}
UserIDs == {"u1", "u2"}

\* The ""-valued results of the Go code.
NoString == ""

VARIABLES
    URLs,       \* URLStorage.URLs: map[string]URLInfo
    last,       \* the last store call: its name, arguments and returned error
    prev,       \* URLStorage.URLs as it was when the last store call began
    inserted,   \* every short id handed to AddURL/AddURLs so far
    fresh,      \* TRUE while every call so far inserted ids not inserted before
    putURL,     \* while fresh: the original URL each id was inserted with
    pendingURLs,\* BatchFileSaver.pendingURLs
    pc,         \* where the thread holding b.mu stands in forceSave/saveToFile
    todo,       \* keys of pendingURLs the range loop of saveToFile has yet to visit
    writer,     \* the bufio.Writer of saveToFile: its buffer and sticky error
    fileAt,     \* the path at which the file opened by os.Create now lives
    result,     \* the value saveToFile's return statement has evaluated
    target,     \* the file at b.filePath
    tmp,        \* the file at b.filePath + ".tmp"
    ret,        \* what forceSave returned, in the state right after its return
    began,      \* during a forceSave and right after: pendingURLs as it began
    snapOld,    \* during a forceSave and right after: b.filePath's file as it began
    phase,      \* where main stands: "boot", "replay" or "serving"
    urlMappings,\* main's urlMappings, the map LoadURLMappings returned
    loadErr,    \* main's err, the error LoadURLMappings returned
    replayTodo, \* keys of urlMappings the replay loop of main has yet to visit
    globalSaver,\* the package variable globalSaver: made or not, and its filePath
    got,        \* the last GetBatchSaver call: its argument and what it returned
    holder,     \* the thread running the flush in progress: "tick" or "caller"
    req,        \* the request thread: the call it is in and where it stands
    resp,       \* what the last finished request returned to its client
    served,     \* the number of service requests begun so far
    serviceInstance, \* handlers' package variable serviceInstance: "nil" or "set"
    httpW,      \* what the last HandleGet call left in its ResponseWriter
    maps,       \* the map[string]string objects alive outside the store
    mapPool,    \* URLStorage.mapPool: the maps sync.Pool holds at the moment
    held,       \* the caller's reference to the map GetURLsByUser returned
    expect,     \* what the caller wrote: the returned map and its own changes
    table,      \* the rows of the relational table urls
    dbLast,     \* the last DBStorage call: name, arguments, error and result
    dbPrev,     \* the table as it was when the last DBStorage call began
    trustedSubnet, \* cfg.TrustedSubnet, the text TrustedSubnetMiddleware was made with
    gateW,      \* the last request through TrustedSubnetMiddleware and its outcome
    storeMu,    \* URLStorage.mu: the thread holding it for writing, and its readers
    saverMu,    \* BatchFileSaver.mu: the threads holding it
    script,     \* for each thread, the lock calls of its path it has yet to make
    logs,       \* the log events the last service request has emitted
    owed,       \* the threads that dropped the error of the last flush unlogged
    del,        \* the DELETE /api/user/urls request and its two goroutines
    goneBefore, \* the short ids that were soft-deleted when the process last ended
    adding,     \* the AddURLs call inside s.mu: the entries it has yet to put
    seen        \* the read that runs beside AddURLs, and what it returned

storeVars == <<URLs, last, prev, inserted, fresh, putURL>>
saverVars == <<pendingURLs, pc, todo, writer, fileAt, result, target, tmp,
               ret, began, snapOld>>
mainVars == <<phase, urlMappings, loadErr, replayTodo>>
threadVars == <<globalSaver, got, holder, req, resp, served>>
handlerVars == <<serviceInstance, httpW>>
listingVars == <<maps, mapPool, held, expect>>
dbVars == <<table, dbLast, dbPrev>>
edgeVars == <<handlerVars, listingVars, dbVars>>
gateVars == <<trustedSubnet, gateW>>
lockVars == <<storeMu, saverMu, script>>
logVars == <<logs, owed>>
delVars == <<del>>
restartVars == <<goneBefore>>
atomVars == <<adding, seen>>
restVars == <<gateVars, lockVars, logVars, delVars, restartVars, atomVars>>
vars == <<storeVars, saverVars, mainVars, threadVars, edgeVars, restVars>>

\* What the calls of one component leave alone.
exceptStore == <<saverVars, mainVars, threadVars, edgeVars, restVars>>
exceptSaver == <<storeVars, mainVars, threadVars, edgeVars, restVars>>

\* ------------------------------------------------------------ URLStorage

EmptyMap == [k \in {} |-> NoString]

URLInfo(originalURL, userID) ==
    [OriginalURL |-> originalURL, UserID |-> userID, IsDeleted |-> FALSE]

\* Put with the two string arguments of the URLInfo literal swapped.
Put_SwapsFields(m, shortURL, originalURL, userID) ==
    [k \in DOMAIN m \cup {shortURL} |->
        IF k = shortURL THEN URLInfo(userID, originalURL) ELSE m[k]]

\* Put that updates the fields of a record already present and keeps its flag.
Put_KeepsDeleted(m, shortURL, originalURL, userID) ==
    [k \in DOMAIN m \cup {shortURL} |->
        IF k # shortURL THEN m[k]
        ELSE IF k \in DOMAIN m
             THEN [m[k] EXCEPT !.OriginalURL = originalURL, !.UserID = userID]
             ELSE URLInfo(originalURL, userID)]

\* s.URLs[shortURL] = URLInfo{OriginalURL: originalURL, UserID: userID}
Put(m, shortURL, originalURL, userID) ==
    [k \in DOMAIN m \cup {shortURL} |->
        IF k = shortURL THEN URLInfo(originalURL, userID) ELSE m[k]]

\* for shortURL, originalURL := range urls { s.URLs[shortURL] = ... }
RECURSIVE AddURLsLoop(_, _, _, _)
AddURLsLoop(m, urls, rest, userID) ==
    IF rest = {} THEN m
    ELSE LET shortURL == CHOOSE k \in rest : TRUE
         IN  AddURLsLoop(Put(m, shortURL, urls[shortURL], userID),
                         urls, rest \ {shortURL}, userID)

\* MarkDeleted that purges a record already marked.
MarkDeleted_Purges(m, shortURL, userID) ==
    IF shortURL \in DOMAIN m /\ m[shortURL].UserID = userID
    THEN IF m[shortURL].IsDeleted
         THEN [k \in DOMAIN m \ {shortURL} |-> m[k]]
         ELSE [m EXCEPT ![shortURL].IsDeleted = TRUE]
    ELSE m

\* MarkDeleted that removes the record from the map.
MarkDeleted_Removes(m, shortURL, userID) ==
    IF shortURL \in DOMAIN m /\ m[shortURL].UserID = userID
    THEN [k \in DOMAIN m \ {shortURL} |-> m[k]]
    ELSE m

\* MarkDeleted without the owner check.
MarkDeleted_AnyOwner(m, shortURL, userID) ==
    IF shortURL \in DOMAIN m
    THEN [m EXCEPT ![shortURL].IsDeleted = TRUE]
    ELSE m

\* MarkDeleted that toggles the flag.
MarkDeleted_Toggles(m, shortURL, userID) ==
    IF shortURL \in DOMAIN m /\ m[shortURL].UserID = userID
    THEN [m EXCEPT ![shortURL].IsDeleted = ~m[shortURL].IsDeleted]
    ELSE m

\* if info, exists := s.URLs[shortURL]; exists && info.UserID == userID {
\*     info.IsDeleted = true; s.URLs[shortURL] = info }
MarkDeleted(m, shortURL, userID) ==
    IF shortURL \in DOMAIN m /\ m[shortURL].UserID = userID
    THEN [m EXCEPT ![shortURL].IsDeleted = TRUE]
    ELSE m

\* for _, shortURL := range shortURLs { ... }
RECURSIVE DeleteLoop(_, _, _)
DeleteLoop(m, shortURLs, userID) ==
    IF shortURLs = <<>> THEN m
    ELSE DeleteLoop(MarkDeleted(m, Head(shortURLs), userID),
                    Tail(shortURLs), userID)

\* GetURL returns (info.OriginalURL, true, info.IsDeleted), or ("", false, false).
GetURLOf(m, shortURL) ==
    IF shortURL \notin DOMAIN m
    THEN <<NoString, FALSE, FALSE>>
    ELSE <<m[shortURL].OriginalURL, TRUE, m[shortURL].IsDeleted>>

GetURL(shortURL) == GetURLOf(URLs, shortURL)

\* GetURLsByUser: result[short] = info.OriginalURL for info.UserID == userID.
GetURLsByUserOf(m, userID) ==
    LET hit == {k \in DOMAIN m : m[k].UserID = userID}
    IN  [k \in hit |-> m[k].OriginalURL]

GetURLsByUser(userID) == GetURLsByUserOf(URLs, userID)

\* GetAllURLs: urlMap[short] = info.OriginalURL for every record.
GetAllURLs == [k \in DOMAIN URLs |-> URLs[k].OriginalURL]

\* Count returns len(s.URLs).
Count == Cardinality(DOMAIN URLs)

\* GetShortURLByOriginalURL ranges over the Go map, whose iteration order is
\* unspecified: every record with that original URL is a possible result.
GetShortURLByOriginalURLOf(m, originalURL) ==
    LET hit == {k \in DOMAIN m : m[k].OriginalURL = originalURL}
    IN  IF hit = {} THEN {<<NoString, FALSE>>}
        ELSE {<<k, TRUE>> : k \in hit}

GetShortURLByOriginalURL(originalURL) ==
    GetShortURLByOriginalURLOf(URLs, originalURL)

\* for _, info := range s.URLs { userSet[info.UserID] = true }
RECURSIVE UserSetLoop(_, _, _)
UserSetLoop(m, rest, userSet) ==
    IF rest = {} THEN userSet
    ELSE LET k == CHOOSE x \in rest : TRUE
         IN  UserSetLoop(m, rest \ {k}, userSet \cup {m[k].UserID})

\* GetStats that counts the live records only.
GetStatsOf_LiveOnly(m) ==
    LET live == {k \in DOMAIN m : ~m[k].IsDeleted}
    IN  <<Cardinality(live), Cardinality(UserSetLoop(m, live, {})), "nil">>

\* GetStats returns (len(s.URLs), len(userSet), nil).
GetStatsOf(m) ==
    <<Cardinality(DOMAIN m), Cardinality(UserSetLoop(m, DOMAIN m, {})), "nil">>

GetStats == GetStatsOf(URLs)

\* ------------------------------------------------- URLStorage: the calls

Call(op, urls, shortURLs, userID, err) ==
    [op |-> op, urls |-> urls, shortURLs |-> shortURLs, userID |-> userID,
     err |-> err]

NoCall == Call("none", EmptyMap, <<>>, NoString, "nil")

\* The maps a caller hands to AddURLs.
URLMaps == UNION {[S -> OriginalURLs] : S \in SUBSET ShortIDs}

\* The id lists a caller hands to DeleteURLs.
IDLists == UNION {[1..n -> ShortIDs] : n \in 0..MaxDeleteLen}

Inserting(urls) ==
    /\ inserted' = inserted \cup DOMAIN urls
    /\ fresh' = (fresh /\ DOMAIN urls \cap inserted = {})
    /\ putURL' = IF fresh' THEN urls @@ putURL ELSE EmptyMap

AddURL(shortURL, originalURL, userID) ==
    /\ URLs' = Put(URLs, shortURL, originalURL, userID)
    /\ last' = Call("AddURL", shortURL :> originalURL, <<>>, userID, "nil")
    /\ prev' = URLs
    /\ Inserting(shortURL :> originalURL)

AddURLs(urls, userID) ==
    /\ URLs' = AddURLsLoop(URLs, urls, DOMAIN urls, userID)
    /\ last' = Call("AddURLs", urls, <<>>, userID, "nil")
    /\ prev' = URLs
    /\ Inserting(urls)

DeleteURLs(shortURLs, userID) ==
    /\ URLs' = DeleteLoop(URLs, shortURLs, userID)
    /\ last' = Call("DeleteURLs", EmptyMap, shortURLs, userID, "nil")
    /\ prev' = URLs
    /\ fresh' = FALSE
    /\ putURL' = EmptyMap
    /\ UNCHANGED inserted

\* NewURLStorage: URLs: make(map[string]URLInfo, 1000)
StoreInit ==
    /\ URLs = [k \in {} |-> URLInfo(NoString, NoString)]
    /\ last = NoCall
    /\ prev = URLs
    /\ inserted = {}
    /\ fresh = TRUE
    /\ putURL = EmptyMap

\* ---------------------------------------------------------- BatchFileSaver

\* An original URL that is not valid UTF-8, and what json.Marshal makes of
\* it: each invalid byte becomes the replacement rune U+FFFD.
InvalidUTF8 == "x<FF>"
Replaced == "x<U+FFFD>"
PendingURLValues == {"x", InvalidUTF8}

\* generateUUID: the id is written and never read back (LoadURLMappings
\* drops the uuid field), so one value stands for every id it returns.
UUIDs == {"g1"}

\* A file: absent, or present with its content, a sequence of units.
Absent == [exists |-> FALSE, data |-> <<>>]
File(data) == [exists |-> TRUE, data |-> data]

\* json.Marshal of a Go string: the quoted text, invalid UTF-8 coerced.
JSONString(s) == <<"json", IF s = InvalidUTF8 THEN Replaced ELSE s>>

\* json.Unmarshal of a JSON string into a Go string.
JSONUnquote(j) == j[2]

\* json.Marshal(URLMapping{UUID, ShortURL, OriginalURL, UserID: "system"}):
\* one JSON object, here cut in two units so that a write can end inside it.
MarshalMapping(uuid, shortURL, originalURL) ==
    << <<"head", JSONString(uuid), JSONString(shortURL)>>,
       <<"tail", JSONString(originalURL), JSONString("system")>> >>

\* The newline byte, one unit.
NewLine == << <<"nl">> >>

NewWriter == [buf |-> <<>>, err |-> FALSE, out |-> <<>>]

\* bufio.Writer.Flush: hand the buffer to the file; a failed write sticks.
WriterFlush(w, ioOK) ==
    IF w.err \/ w.buf = <<>> THEN w
    ELSE IF ioOK THEN [w EXCEPT !.out = w.out \o w.buf, !.buf = <<>>]
    ELSE [w EXCEPT !.err = TRUE]

\* bufio.Writer.Write / WriteString of p. While p does not fit: an empty
\* buffer writes p straight to the file, otherwise the buffer is filled and
\* flushed. What is left is copied into the buffer.
RECURSIVE WriterWrite(_, _, _)
WriterWrite(w, p, ioOK) ==
    LET avail == BufSize - Len(w.buf)
    IN  IF Len(p) > avail /\ ~w.err
        THEN IF w.buf = <<>>
             THEN IF ioOK THEN [w EXCEPT !.out = w.out \o p]
                  ELSE [w EXCEPT !.err = TRUE]
             ELSE WriterWrite(
                      WriterFlush([w EXCEPT !.buf = w.buf \o SubSeq(p, 1, avail)],
                                  ioOK),
                      SubSeq(p, avail + 1, Len(p)), ioOK)
        ELSE IF w.err THEN w
        ELSE [w EXCEPT !.buf = w.buf \o p]

\* The bytes the writer has handed to the file are appended to the file at
\* the path where the opened file now lives.
Appended(f, w) == IF f.exists THEN File(f.data \o w.out) ELSE f

\* b.pendingURLs[shortURL] = originalURL, under b.mu.
SaverAddURL(shortURL, originalURL) ==
    /\ pc = "idle"
    /\ pendingURLs' = (shortURL :> originalURL) @@ pendingURLs
    /\ ret' = "none"
    /\ began' = EmptyMap
    /\ snapOld' = Absent
    /\ UNCHANGED <<pc, todo, writer, fileAt, result, target, tmp>>

\* forceSave that runs saveToFile on an empty pending buffer too.
ForceSaveBegin_FlushesEmpty ==
    /\ pc = "idle"
    /\ began' = pendingURLs
    /\ snapOld' = target
    /\ ret' = "none"
    /\ pc' = "create"
    /\ UNCHANGED <<pendingURLs, todo, writer, fileAt, result, target, tmp>>

\* forceSave that leaves a single pending entry for a later flush.
ForceSaveBegin_WaitsForMore ==
    /\ pc = "idle"
    /\ began' = pendingURLs
    /\ snapOld' = target
    /\ IF Cardinality(DOMAIN pendingURLs) <= 1
       THEN /\ ret' = "nil"
            /\ pc' = "idle"
       ELSE /\ ret' = "none"
            /\ pc' = "create"
    /\ UNCHANGED <<pendingURLs, todo, writer, fileAt, result, target, tmp>>

\* forceSave: b.mu.Lock(); if len(b.pendingURLs) == 0 { return nil };
\* otherwise saveToFile runs, holding b.mu.
ForceSaveBegin ==
    /\ pc = "idle"
    /\ began' = pendingURLs
    /\ snapOld' = target
    /\ IF pendingURLs = EmptyMap
       THEN /\ ret' = "nil"
            /\ pc' = "idle"
       ELSE /\ ret' = "none"
            /\ pc' = "create"
    /\ UNCHANGED <<pendingURLs, todo, writer, fileAt, result, target, tmp>>

\* file, err := os.Create(tmpFile); if err != nil { return err };
\* writer := bufio.NewWriter(file)
CreateTmp(ioOK) ==
    /\ pc = "create"
    /\ IF ioOK
       THEN /\ tmp' = File(<<>>)
            /\ fileAt' = "tmp"
            /\ writer' = NewWriter
            /\ todo' = DOMAIN pendingURLs
            /\ pc' = "write"
            /\ ret' = "none"
       ELSE /\ pc' = "idle"
            /\ ret' = "err"
            /\ UNCHANGED <<tmp, fileAt, writer, todo>>
    /\ UNCHANGED <<pendingURLs, result, target, began, snapOld>>

\* One turn of the range loop, in the map's order: json.Marshal(mapping),
\* writer.Write(line), writer.WriteString("\n"); the results of both writes
\* are dropped.
WriteEntry(shortURL, uuid, ioOK) ==
    /\ pc = "write"
    /\ shortURL \in todo
    /\ LET line == MarshalMapping(uuid, shortURL, pendingURLs[shortURL])
           w == WriterWrite(WriterWrite(writer, line, ioOK), NewLine, ioOK)
       IN  /\ tmp' = Appended(tmp, w)
           /\ writer' = [w EXCEPT !.out = <<>>]
    /\ todo' = todo \ {shortURL}
    /\ UNCHANGED <<pendingURLs, pc, fileAt, result, target, ret, began, snapOld>>

\* b.pendingURLs = make(map[string]string); return os.Rename(tmpFile,
\* b.filePath): the result is evaluated, the deferred calls have yet to run.
RenameTmp(ioOK) ==
    /\ pc = "write"
    /\ todo = {}
    /\ pendingURLs' = EmptyMap
    /\ IF ioOK
       THEN /\ target' = tmp
            /\ tmp' = Absent
            /\ fileAt' = "target"
            /\ result' = "nil"
       ELSE /\ result' = "err"
            /\ UNCHANGED <<target, tmp, fileAt>>
    /\ pc' = "deferred"
    /\ UNCHANGED <<todo, writer, ret, began, snapOld>>

\* The deferred calls, last registered first: writer.Flush() (its error
\* dropped), file.Close(), b.mu.Unlock(); then forceSave returns.
DeferredFlush(ioOK) ==
    /\ pc = "deferred"
    /\ LET w == WriterFlush(writer, ioOK)
       IN  /\ target' = IF fileAt = "target" THEN Appended(target, w) ELSE target
           /\ tmp' = IF fileAt = "tmp" THEN Appended(tmp, w) ELSE tmp
    /\ writer' = NewWriter
    /\ fileAt' = "none"
    /\ ret' = result
    /\ result' = "none"
    /\ pc' = "idle"
    /\ UNCHANGED <<pendingURLs, todo, began, snapOld>>

\* The process dies: its memory is lost, the files stay as they are.
Crash ==
    /\ pc # "down"
    /\ pc' = "down"
    /\ pendingURLs' = EmptyMap
    /\ todo' = {}
    /\ writer' = NewWriter
    /\ fileAt' = "none"
    /\ result' = "none"
    /\ ret' = "none"
    /\ began' = EmptyMap
    /\ snapOld' = Absent
    /\ UNCHANGED <<target, tmp>>

\* The process starts again: GetBatchSaver makes the saver, nothing pending.
Restart ==
    /\ pc = "down"
    /\ pc' = "idle"
    /\ UNCHANGED <<pendingURLs, todo, writer, fileAt, result, target, tmp,
                   ret, began, snapOld>>

\* GetBatchSaver: pendingURLs: make(map[string]string); f is the file the
\* target path holds when the process starts.
SaverInitWith(f) ==
    /\ pendingURLs = EmptyMap
    /\ pc = "idle"
    /\ todo = {}
    /\ writer = NewWriter
    /\ fileAt = "none"
    /\ result = "none"
    /\ target = f
    /\ tmp = Absent
    /\ ret = "none"
    /\ began = EmptyMap
    /\ snapOld = Absent

\* The first start: no file written yet.
SaverInit == SaverInitWith(Absent)

\* ------------------------------------------ GetBatchSaver and its callers

\* The paths callers pass; the first is cfg.FileStorage.
Paths == {"p1", "p2"}
FileStorage == "p1"

\* globalSaver == nil, and globalSaver made with a filePath.
NoSaver == [made |-> FALSE, filePath |-> NoString]
Saver(filePath) == [made |-> TRUE, filePath |-> filePath]

NoGot == [path |-> NoString, saver |-> NoSaver]

\* The request thread outside any call.
NoReq == [op |-> "none", step |-> "none", urls |-> EmptyMap, rest |-> {},
          err |-> "none", items |-> <<>>, asked |-> <<>>, out |-> <<>>,
          user |-> NoString]

\* No request finished yet.
NoResp == [op |-> "none", err |-> "none", saveErr |-> "none",
           shortURLs |-> <<>>, urls |-> <<>>, user |-> NoString,
           AlreadyExists |-> FALSE]

\* Before the first GetBatchSaver, and after GetBatchSaver(cfg.FileStorage).
SaverNotMade == globalSaver = NoSaver /\ got = NoGot
SaverMade == globalSaver = Saver(FileStorage) /\ got = NoGot

ThreadInit == holder = "none" /\ req = NoReq /\ resp = NoResp /\ served = 0

\* GetBatchSaver(filePath): globalSaverOnce.Do makes the saver (and starts
\* its periodicSave goroutine) in the first call only; every call returns
\* globalSaver.
GetBatchSaver(filePath) ==
    /\ globalSaver' = IF globalSaver.made THEN globalSaver ELSE Saver(filePath)
    /\ got' = [path |-> filePath, saver |-> globalSaver']

\* A GetBatchSaver call on its own.
GetBatchSaverCall(filePath) ==
    /\ GetBatchSaver(filePath)
    /\ UNCHANGED <<storeVars, saverVars, mainVars, edgeVars, holder, req, resp, served,
                   restVars>>

\* SaveSingleURLMapping / SaveURLMappings begin: saver := GetBatchSaver(
\* filePath); urls are the entries to add (one for SaveSingleURLMapping).
SaveBegin(op, filePath, urls) ==
    /\ req.op = "none"
    /\ GetBatchSaver(filePath)
    /\ req' = [NoReq EXCEPT !.op = op,
                            !.step = IF urls = EmptyMap THEN "force" ELSE "add",
                            !.urls = urls, !.rest = DOMAIN urls]
    /\ UNCHANGED <<storeVars, saverVars, mainVars, edgeVars, holder, resp, served, restVars>>

SaveSingleURLMapping(filePath, shortURL, originalURL) ==
    SaveBegin("SaveSingleURLMapping", filePath, shortURL :> originalURL)

SaveURLMappings(filePath, urlMap) ==
    SaveBegin("SaveURLMappings", filePath, urlMap)

\* saver.AddURL(shortURL, originalURL), one turn of the range loop of
\* SaveURLMappings, in the map's order.
SaveAdd(shortURL) ==
    /\ req.step = "add"
    /\ shortURL \in req.rest
    /\ SaverAddURL(shortURL, req.urls[shortURL])
    /\ req' = [req EXCEPT !.rest = req.rest \ {shortURL},
                          !.step = IF req.rest = {shortURL} THEN "force"
                                   ELSE "add"]
    /\ UNCHANGED <<storeVars, mainVars, edgeVars, globalSaver, got, holder, resp, served,
                   restVars>>

\* forceSave is entered by thread who; with nothing pending it returns at
\* once, otherwise who holds b.mu until saveToFile has returned. No error
\* of this flush has been dropped yet.
EnterForceSave(who) ==
    /\ ForceSaveBegin
    /\ holder' = IF pc' = "idle" THEN "none" ELSE who
    /\ req' = IF who # "caller" THEN req
              ELSE IF pc' = "idle"
                   THEN [req EXCEPT !.step = "return", !.err = ret']
                   ELSE [req EXCEPT !.step = "flushing"]
    /\ owed' = {}
    /\ UNCHANGED <<storeVars, mainVars, edgeVars, globalSaver, got, resp, served,
                   gateVars, lockVars, logs, delVars, restartVars, atomVars>>

\* return saver.forceSave()
SaveForce ==
    /\ req.step = "force"
    /\ EnterForceSave("caller")

\* periodicSave: for range ticker.C { b.forceSave() }, the result dropped.
Tick ==
    /\ globalSaver.made
    /\ EnterForceSave("tick")

\* A step of saveToFile by the thread that holds b.mu; when the step ends
\* the flush, forceSave returns to that thread. periodicSave calls
\* b.forceSave() as a statement: an error returned to it is dropped there.
FlushStep(step) ==
    /\ step
    /\ holder' = IF pc' = "idle" THEN "none" ELSE holder
    /\ req' = IF pc' = "idle" /\ holder = "caller"
              THEN [req EXCEPT !.step = "return", !.err = ret']
              ELSE req
    /\ owed' = IF pc' = "idle" /\ ret' = "err" /\ holder = "tick"
               THEN {"tick"}
               ELSE owed
    /\ UNCHANGED <<storeVars, mainVars, edgeVars, globalSaver, got, resp, served,
                   gateVars, lockVars, logs, delVars, restartVars, atomVars>>

\* SaveSingleURLMapping / SaveURLMappings return the error of forceSave.
SaveReturn ==
    /\ req.op \in {"SaveSingleURLMapping", "SaveURLMappings"}
    /\ req.step = "return"
    /\ req' = NoReq
    /\ resp' = [NoResp EXCEPT !.op = req.op, !.err = req.err,
                              !.saveErr = req.err]
    /\ UNCHANGED <<storeVars, saverVars, mainVars, edgeVars, globalSaver, got, holder,
                   served, restVars>>

\* ----------------------------------------------------- LoadURLMappings

\* A line longer than the Scanner's buffer (bufio.MaxScanTokenSize).
TooLong == <<"long">>

\* bufio.Scanner with ScanLines: the units up to each newline, and a last
\* line without newline when it is not empty. Scan returns false at a line
\* that is too long.
RECURSIVE ScanLines(_, _)
ScanLines(data, line) ==
    IF data = <<>> THEN (IF line = <<>> THEN <<>> ELSE <<line>>)
    ELSE IF Head(data) = TooLong THEN <<>>
    ELSE IF Head(data) = NewLine[1]
         THEN <<line>> \o ScanLines(Tail(data), <<>>)
         ELSE ScanLines(Tail(data), Append(line, Head(data)))

\* scanner.Err(): bufio.ErrTooLong when the scan stopped at such a line.
ScannerErr(data) ==
    IF \E i \in DOMAIN data : data[i] = TooLong THEN "token too long" ELSE "nil"

\* json.Unmarshal(scanner.Bytes(), &mapping) succeeds on a whole object.
ValidLine(line) ==
    /\ Len(line) = 2
    /\ line[1][1] = "head"
    /\ line[2][1] = "tail"

\* LoadLoop that returns what it has at the first line that fails to parse.
RECURSIVE LoadLoop_Aborts(_, _)
LoadLoop_Aborts(lines, urlMap) ==
    IF lines = <<>> THEN urlMap
    ELSE LET line == Head(lines)
         IN  IF ValidLine(line)
             THEN LoadLoop_Aborts(Tail(lines),
                           (JSONUnquote(line[1][3]) :> JSONUnquote(line[2][2]))
                               @@ urlMap)
             ELSE urlMap

\* for scanner.Scan() { if Unmarshal fails { continue };
\*     urlMap[mapping.ShortURL] = mapping.OriginalURL }
RECURSIVE LoadLoop(_, _)
LoadLoop(lines, urlMap) ==
    IF lines = <<>> THEN urlMap
    ELSE LET line == Head(lines)
         IN  IF ValidLine(line)
             THEN LoadLoop(Tail(lines),
                           (JSONUnquote(line[1][3]) :> JSONUnquote(line[2][2]))
                               @@ urlMap)
             ELSE LoadLoop(Tail(lines), urlMap)

\* LoadURLMappings(filePath) once os.Open succeeded: the empty map when the
\* file does not exist, else (urlMap, scanner.Err()).
LoadURLMappings(f) ==
    IF ~f.exists THEN <<EmptyMap, "nil">>
    ELSE <<LoadLoop(ScanLines(f.data, <<>>), EmptyMap), ScannerErr(f.data)>>

\* LoadURLMappings(filePath): os.Open of an existing file may fail, and
\* then the result is (nil, err).
LoadURLMappingsIO(f, openOK) ==
    IF f.exists /\ ~openOK THEN <<EmptyMap, "open failed">>
    ELSE LoadURLMappings(f)

\* ------------------------------------------- the files a start may find

\* Longest file, in lines (or in objects of an array).
MaxLines == 3

\* The objects a file may hold, as json.Marshal writes them.
Objects ==
    {MarshalMapping(g, s, u) : g \in UUIDs, s \in ShortIDs, u \in OriginalURLs}

\* Lines json.Unmarshal rejects: free text, the empty line, an object cut
\* short; and a line the Scanner cannot hold.
BadLines ==
    {<< <<"text">> >>, <<>>, <<TooLong>>} \cup {<<o[1]>> : o \in Objects}

Lines == Objects \cup BadLines

RECURSIVE JoinLines(_)
JoinLines(lines) ==
    IF lines = <<>> THEN <<>>
    ELSE Head(lines) \o NewLine \o JoinLines(Tail(lines))

\* Newline-delimited files, the last line with or without its newline.
LineFiles ==
    LET seqs == UNION {[1..n -> Lines] : n \in 0..MaxLines}
    IN  {File(JoinLines(l)) : l \in seqs}
          \cup {File(SubSeq(JoinLines(l), 1, Len(JoinLines(l)) - 1)) :
                  l \in seqs \ {<<>>}}

\* The units of a JSON array around its objects.
ArrayOpen == <<"[">>
ArrayComma == <<",">>
ArrayClose == <<"]">>

RECURSIVE ArrayBody(_, _)
ArrayBody(objs, sep) ==
    IF objs = <<>> THEN <<>>
    ELSE IF Len(objs) = 1 THEN Head(objs) \o sep
    ELSE Head(objs) \o <<ArrayComma>> \o sep \o ArrayBody(Tail(objs), sep)

\* Legacy files: one JSON array of objects, on one line (sep empty) or with
\* one object per line (sep a newline).
ArrayFiles ==
    LET seqs == UNION {[1..n -> Objects] : n \in 0..MaxLines}
    IN  {File(<<ArrayOpen>> \o sep \o ArrayBody(objs, sep) \o <<ArrayClose>>) :
            objs \in seqs, sep \in {<<>>, NewLine}}

SnapshotFiles == {Absent} \cup LineFiles \cup ArrayFiles

\* ------------------------------------------------------- main: the start

\* The owner main gives to replayed records.
SystemUser == "system"

\* main before LoadURLMappings.
MainInit ==
    /\ phase = "boot"
    /\ urlMappings = EmptyMap
    /\ loadErr = "none"
    /\ replayTodo = {}

\* urlMappings, err := storage.LoadURLMappings(cfg.FileStorage); the replay
\* loop runs only when err == nil.
LoadSnapshot(openOK) ==
    /\ phase = "boot"
    /\ LET r == LoadURLMappingsIO(target, openOK)
       IN  /\ urlMappings' = r[1]
           /\ loadErr' = r[2]
           /\ replayTodo' = IF r[2] = "nil" THEN DOMAIN r[1] ELSE {}
    /\ phase' = "replay"
    /\ UNCHANGED <<storeVars, saverVars, threadVars, edgeVars, restVars>>

\* ReplayEntry that writes the record without an owner.
ReplayEntry_NoOwner(shortURL) ==
    /\ phase = "replay"
    /\ shortURL \in replayTodo
    /\ AddURL(shortURL, urlMappings[shortURL], NoString)
    /\ replayTodo' = replayTodo \ {shortURL}
    /\ UNCHANGED <<saverVars, threadVars, edgeVars, phase, urlMappings, loadErr, restVars>>

\* One turn of main's range loop, in the map's order:
\* storageInstance.AddURL(shortURL, originalURL, "system").
ReplayEntry(shortURL) ==
    /\ phase = "replay"
    /\ shortURL \in replayTodo
    /\ AddURL(shortURL, urlMappings[shortURL], SystemUser)
    /\ replayTodo' = replayTodo \ {shortURL}
    /\ UNCHANGED <<saverVars, threadVars, edgeVars, phase, urlMappings, loadErr, restVars>>

\* handlers.InitStorage(storageInstance): from here on requests are served.
InitStorage ==
    /\ phase = "replay"
    /\ replayTodo = {}
    /\ phase' = "serving"
    /\ UNCHANGED <<storeVars, saverVars, threadVars, edgeVars, urlMappings, loadErr,
                   replayTodo, restVars>>

\* ---------------------------------------------------------------- Service

\* Longest batch request.
MaxBatch == 2
\* Number of service requests in a run.
MaxRequests == 2

\* req.URLs of a batch request: the original URLs in order, the
\* correlation id of an item being its place.
Batches == UNION {[1..n -> OriginalURLs] : n \in 0..MaxBatch}

\* main once a start that found no snapshot file serves requests.
Started ==
    /\ phase = "serving"
    /\ urlMappings = EmptyMap
    /\ loadErr = "nil"
    /\ replayTodo = {}

\* log.Printf("Warning: failed to save URL mapping(s) to file: %v", err)
SaveFailedWarning == "Warning: failed to save to file"

\* The response of the service to its caller.
Response(op, err) ==
    [op |-> op, err |-> err, saveErr |-> req.err, shortURLs |-> req.out,
     urls |-> req.asked, user |-> req.user, AlreadyExists |-> FALSE]

\* Service.ShortenURL up to the save: shortURL := generateShortURL();
\* s.storage.AddURL(shortURL, req.OriginalURL, req.UserID), which returns
\* nil for URLStorage; then storage.SaveSingleURLMapping(
\* s.config.FileStorage, shortURL, req.OriginalURL) is entered.
ShortenURL(originalURL, userID) ==
    /\ req.op = "none"
    /\ \E shortURL \in ShortIDs :
          /\ AddURL(shortURL, originalURL, userID)
          /\ req' = [NoReq EXCEPT !.op = "ShortenURL", !.step = "add",
                                  !.urls = shortURL :> originalURL,
                                  !.rest = {shortURL},
                                  !.asked = <<originalURL>>,
                                  !.out = <<shortURL>>, !.user = userID]
    /\ GetBatchSaver(FileStorage)
    /\ resp' = NoResp
    /\ served' = served + 1
    /\ logs' = {}
    /\ UNCHANGED <<saverVars, mainVars, edgeVars, holder, gateVars, lockVars,
                   owed, delVars, restartVars, atomVars>>

\* ShortenURLReturn that hands the error of the save to the caller.
ShortenURLReturn_Propagates ==
    /\ req.op = "ShortenURL"
    /\ req.step = "return"
    /\ resp' = Response("ShortenURL", req.err)
    /\ req' = NoReq
    /\ logs' = IF req.err = "err" THEN {SaveFailedWarning} ELSE logs
    /\ UNCHANGED <<storeVars, saverVars, mainVars, edgeVars, globalSaver, got, holder,
                   served, gateVars, lockVars, owed, delVars, restartVars, atomVars>>

\* Service.ShortenURL after the save: its error is logged only, and the
\* response carries the new short URL, AlreadyExists false and a nil error.
ShortenURLReturn ==
    /\ req.op = "ShortenURL"
    /\ req.step = "return"
    /\ resp' = Response("ShortenURL", "nil")
    /\ req' = NoReq
    /\ logs' = IF req.err = "err" THEN {SaveFailedWarning} ELSE logs
    /\ UNCHANGED <<storeVars, saverVars, mainVars, edgeVars, globalSaver, got, holder,
                   served, gateVars, lockVars, owed, delVars, restartVars, atomVars>>

\* Service.ShortenURLBatch begins: an empty request is an error.
ShortenURLBatch(items, userID) ==
    /\ req.op = "none"
    /\ IF items = <<>>
       THEN /\ resp' = [NoResp EXCEPT !.op = "ShortenURLBatch",
                                      !.err = "empty batch request",
                                      !.user = userID]
            /\ req' = NoReq
       ELSE /\ resp' = NoResp
            /\ req' = [NoReq EXCEPT !.op = "ShortenURLBatch", !.step = "items",
                                    !.items = items, !.asked = items,
                                    !.user = userID]
    /\ served' = served + 1
    /\ logs' = {}
    /\ UNCHANGED <<storeVars, saverVars, mainVars, edgeVars, globalSaver, got, holder,
                   gateVars, lockVars, owed, delVars, restartVars, atomVars>>

\* One turn of the loop of ShortenURLBatch: generateShortURL, AddURL (nil
\* for URLStorage), the response item, urlsToSave[shortURL] = OriginalURL;
\* after the last turn storage.SaveURLMappings(s.config.FileStorage,
\* urlsToSave) is entered.
BatchItem ==
    /\ req.op = "ShortenURLBatch"
    /\ req.step = "items"
    /\ \E shortURL \in ShortIDs :
          /\ AddURL(shortURL, Head(req.items), req.user)
          /\ LET urlsToSave == (shortURL :> Head(req.items)) @@ req.urls
                 next == [req EXCEPT !.items = Tail(req.items),
                                     !.out = Append(req.out, shortURL),
                                     !.urls = urlsToSave]
             IN  IF Tail(req.items) # <<>>
                 THEN /\ req' = next
                      /\ UNCHANGED <<globalSaver, got>>
                 ELSE /\ req' = [next EXCEPT !.step = "add",
                                             !.rest = DOMAIN urlsToSave]
                      /\ GetBatchSaver(FileStorage)
    /\ UNCHANGED <<saverVars, mainVars, edgeVars, holder, resp, served, restVars>>

\* Service.ShortenURLBatch after the save: its error is logged only, and
\* the response carries one short URL per item and a nil error.
ShortenURLBatchReturn ==
    /\ req.op = "ShortenURLBatch"
    /\ req.step = "return"
    /\ resp' = Response("ShortenURLBatch", "nil")
    /\ req' = NoReq
    /\ logs' = IF req.err = "err" THEN {SaveFailedWarning} ELSE logs
    /\ UNCHANGED <<storeVars, saverVars, mainVars, edgeVars, globalSaver, got, holder,
                   served, gateVars, lockVars, owed, delVars, restartVars, atomVars>>

\* ------------------------------------------------------- main: the shutdown

\* log.Printf("Error saving URL mappings during shutdown: %v", err) and
\* log.Printf("Successfully saved %d URL mappings to file", len(urlMap))
ShutdownSaveError == "Error saving URL mappings during shutdown"
ShutdownSaved == "Successfully saved URL mappings to file"

\* <-ctx.Done(): srv.Shutdown has let the requests end; cfg.FileStorage is
\* not empty: urlMap := storageInstance.GetAllURLs(), and
\* storage.SaveURLMappings(cfg.FileStorage, urlMap) is entered.
ShutdownSave ==
    /\ phase = "serving"
    /\ req.op = "none"
    /\ phase' = "shutdown"
    /\ GetBatchSaver(FileStorage)
    /\ req' = [NoReq EXCEPT !.op = "SaveURLMappings",
                            !.step = IF GetAllURLs = EmptyMap THEN "force"
                                     ELSE "add",
                            !.urls = GetAllURLs, !.rest = DOMAIN GetAllURLs]
    /\ resp' = NoResp
    /\ logs' = {}
    /\ UNCHANGED <<storeVars, saverVars, urlMappings, loadErr, replayTodo,
                   edgeVars, holder, served, gateVars, lockVars, owed, delVars, restartVars, atomVars>>

\* SaveURLMappings has returned: main logs its outcome and returns.
ShutdownDone ==
    /\ phase = "shutdown"
    /\ req.step = "return"
    /\ phase' = "stopped"
    /\ req' = NoReq
    /\ resp' = [NoResp EXCEPT !.op = req.op, !.err = req.err,
                              !.saveErr = req.err]
    /\ logs' = IF req.err = "nil" THEN {ShutdownSaved} ELSE {ShutdownSaveError}
    /\ UNCHANGED <<storeVars, saverVars, urlMappings, loadErr, replayTodo,
                   edgeVars, globalSaver, got, holder, served, gateVars,
                   lockVars, owed, delVars, restartVars, atomVars>>

\* The process is started again after main returned: a new URLStorage, no
\* saver yet, main before LoadURLMappings; the files are as the last
\* process left them.
ProcessRestart ==
    /\ phase = "stopped"
    /\ goneBefore' = {k \in DOMAIN URLs : URLs[k].IsDeleted}
    /\ URLs' = [k \in {} |-> URLInfo(NoString, NoString)]
    /\ last' = NoCall
    /\ prev' = URLs'
    /\ inserted' = {}
    /\ fresh' = TRUE
    /\ putURL' = EmptyMap
    /\ pendingURLs' = EmptyMap
    /\ pc' = "idle"
    /\ todo' = {}
    /\ writer' = NewWriter
    /\ fileAt' = "none"
    /\ result' = "none"
    /\ ret' = "none"
    /\ began' = EmptyMap
    /\ snapOld' = Absent
    /\ phase' = "boot"
    /\ urlMappings' = EmptyMap
    /\ loadErr' = "none"
    /\ replayTodo' = {}
    /\ globalSaver' = NoSaver
    /\ got' = NoGot
    /\ holder' = "none"
    /\ req' = NoReq
    /\ resp' = NoResp
    /\ served' = 0
    /\ UNCHANGED <<target, tmp, edgeVars, gateVars, lockVars, logVars, delVars,
                   atomVars>>

\* ----------------------------------------------------- handlers: GET /{id}

\* The statuses HandleGet writes.
StatusBadRequest == 400
StatusNotFound == 404
StatusGone == 410
StatusTemporaryRedirect == 307

\* r.Method of a request.
Methods == {"GET", "POST"}

\* A ResponseWriter nothing was written to: no status, no Location header.
\* record is the store's record of id when the handler ran, <<>> for none.
NoWriter == [method |-> NoString, id |-> NoString, status |-> 0,
             location |-> NoString, panicked |-> FALSE, record |-> <<>>]

\* var serviceInstance *service.Service: nil until InitService is called.
HandlersInit == serviceInstance = "nil" /\ httpW = NoWriter

\* handlers.InitService(service). The tests and examples call it; main
\* calls handlers.InitStorage only.
InitService ==
    /\ serviceInstance' = "set"
    /\ UNCHANGED <<storeVars, saverVars, mainVars, threadVars, httpW,
                   listingVars, dbVars, restVars>>

\* Service.GetURL: s.storage.GetURL(req.ShortID) as a GetURLResponse; its
\* error is always nil.
ServiceGetURL(shortID) ==
    LET r == GetURL(shortID)
    IN  [OriginalURL |-> r[1], Exists |-> r[2], Deleted |-> r[3]]

RecordOf(id) == IF id \in DOMAIN URLs THEN <<URLs[id]>> ELSE <<>>

\* http.Error(w, ..., status), or w.Header().Set("Location", location)
\* followed by w.WriteHeader(status).
Written(method, id, status, location) ==
    [method |-> method, id |-> id, status |-> status, location |-> location,
     panicked |-> FALSE, record |-> RecordOf(id)]

\* serviceInstance.GetURL on the nil *Service reads s.storage: the handler
\* panics before it writes anything to w.
Panicked(method, id) ==
    [method |-> method, id |-> id, status |-> 0, location |-> NoString,
     panicked |-> TRUE, record |-> RecordOf(id)]

\* HandleGet(w, r) with id = chi.URLParam(r, "id").
HandleGet(method, id) ==
    /\ phase = "serving"
    /\ httpW' =
          IF method # "GET"
          THEN Written(method, id, StatusBadRequest, NoString)
          ELSE IF serviceInstance = "nil"
          THEN Panicked(method, id)
          ELSE LET r == ServiceGetURL(id)
               IN  IF ~r.Exists
                   THEN Written(method, id, StatusNotFound, NoString)
                   ELSE IF r.Deleted
                   THEN Written(method, id, StatusGone, NoString)
                   ELSE Written(method, id, StatusTemporaryRedirect,
                                r.OriginalURL)
    /\ UNCHANGED <<storeVars, saverVars, mainVars, threadVars,
                   serviceInstance, listingVars, dbVars, restVars>>

\* main after the replay loop of a start that found no snapshot file, right
\* before handlers.InitStorage.
Replayed ==
    /\ phase = "replay"
    /\ urlMappings = EmptyMap
    /\ loadErr = "nil"
    /\ replayTodo = {}

\* ------------------------------- GetURLsByUser, GetAllURLs: the returned map

\* Number of map[string]string objects alive at once.
MaxMaps == 3
Refs == 1..MaxMaps

\* NewURLStorage: the pool starts empty; no caller holds a map.
NoMaps == [r \in {} |-> EmptyMap]
ListingInit ==
    /\ maps = NoMaps
    /\ mapPool = {}
    /\ held = {}
    /\ expect = EmptyMap

\* make(map[string]string, n): the reference of a new object.
NewRef(used) == CHOOSE r \in Refs \ used : \A q \in Refs \ used : r <= q

\* The objects still referenced; the others are collected.
Collect(m, refs) == [r \in DOMAIN m \cap refs |-> m[r]]

TheHeld == CHOOSE r \in held : TRUE

\* for k := range urls { delete(urls, k) }
Cleared == EmptyMap

Without(m, k) == [x \in DOMAIN m \ {k} |-> m[x]]

\* s.mapPool.Get() hands out a pooled map, or the map New makes.
PoolGet(urls) ==
    \/ urls \in mapPool
    \/ Refs \ DOMAIN maps # {} /\ urls = NewRef(DOMAIN maps)

\* GetURLsByUser that fills and returns the pooled map.
GetURLsByUserCall_ReturnsPooled(userID, urls, mine) ==
    /\ PoolGet(urls)
    /\ mine => held = {}
    /\ Refs \ (DOMAIN maps \cup {urls}) # {}
    /\ mapPool' = mapPool \cup {urls}
    /\ held' = IF mine THEN {urls} ELSE held
    /\ expect' = IF mine THEN GetURLsByUserOf(URLs, userID) ELSE expect
    /\ maps' = Collect((urls :> Cleared) @@ maps, mapPool' \cup held')
    /\ UNCHANGED <<storeVars, saverVars, mainVars, threadVars, handlerVars,
                   dbVars, restVars>>

\* GetURLsByUser(userID) under s.mu.RLock: urls comes from the pool, result
\* (res) is made new and filled from s.URLs, the deferred function clears
\* urls and puts it back, result is returned. mine: the caller keeps the map in
\* held; otherwise another goroutine called and let its map go.
GetURLsByUserCall(userID, urls, mine) ==
    /\ PoolGet(urls)
    /\ mine => held = {}
    /\ Refs \ (DOMAIN maps \cup {urls}) # {}
    /\ LET res == NewRef(DOMAIN maps \cup {urls})
           filled == GetURLsByUserOf(URLs, userID)
       IN  /\ mapPool' = mapPool \cup {urls}
           /\ held' = IF mine THEN {res} ELSE held
           /\ expect' = IF mine THEN filled ELSE expect
           /\ maps' = Collect((res :> filled) @@ (urls :> Cleared) @@ maps,
                              mapPool' \cup held')
    /\ UNCHANGED <<storeVars, saverVars, mainVars, threadVars, handlerVars,
                   dbVars, restVars>>

\* GetAllURLs() under s.mu.RLock: urlMap is made new and filled from s.URLs.
GetAllURLsCall(mine) ==
    /\ mine => held = {}
    /\ Refs \ DOMAIN maps # {}
    /\ LET urlMap == NewRef(DOMAIN maps)
       IN  /\ held' = IF mine THEN {urlMap} ELSE held
           /\ expect' = IF mine THEN GetAllURLs ELSE expect
           /\ maps' = Collect((urlMap :> GetAllURLs) @@ maps, mapPool \cup held')
    /\ UNCHANGED <<storeVars, saverVars, mainVars, threadVars, handlerVars,
                   dbVars, mapPool, restVars>>

\* The caller writes m[k] = v into the map it was given.
CallerSet(k, v) ==
    /\ held # {}
    /\ maps' = [maps EXCEPT ![TheHeld] = (k :> v) @@ maps[TheHeld]]
    /\ expect' = (k :> v) @@ expect
    /\ UNCHANGED <<storeVars, saverVars, mainVars, threadVars, handlerVars,
                   dbVars, mapPool, held, restVars>>

\* The caller runs delete(m, k) on the map it was given.
CallerDelete(k) ==
    /\ held # {}
    /\ k \in DOMAIN maps[TheHeld]
    /\ maps' = [maps EXCEPT ![TheHeld] = Without(maps[TheHeld], k)]
    /\ expect' = Without(expect, k)
    /\ UNCHANGED <<storeVars, saverVars, mainVars, threadVars, handlerVars,
                   dbVars, mapPool, held, restVars>>

\* The caller lets go of its map.
CallerDrop ==
    /\ held # {}
    /\ held' = {}
    /\ expect' = EmptyMap
    /\ maps' = Collect(maps, mapPool)
    /\ UNCHANGED <<storeVars, saverVars, mainVars, threadVars, handlerVars,
                   dbVars, mapPool, restVars>>

\* sync.Pool releases a pooled object, as it may at any time.
PoolDrop(r) ==
    /\ r \in mapPool
    /\ mapPool' = mapPool \ {r}
    /\ maps' = Collect(maps, mapPool' \cup held)
    /\ UNCHANGED <<storeVars, saverVars, mainVars, threadVars, handlerVars,
                   dbVars, held, expect, restVars>>

\* ------------------------------------------------------------- DBStorage

\* A row of the table urls. url and short_url are UNIQUE; the SERIAL id is
\* read by no statement.
Row(url, short_url, user_id, is_deleted) ==
    [url |-> url, short_url |-> short_url, user_id |-> user_id,
     is_deleted |-> is_deleted]

HasURL(t, url) == \E row \in t : row.url = url
HasShortURL(t, short_url) == \E row \in t : row.short_url = short_url

DBCall(op, urls, shortURLs, userID, ok, err) ==
    [op |-> op, urls |-> urls, shortURLs |-> shortURLs, userID |-> userID,
     ok |-> ok, err |-> err]

\* NewDBStorage on a new database: CREATE TABLE IF NOT EXISTS urls.
DBInit ==
    /\ table = {}
    /\ dbLast = DBCall("none", EmptyMap, <<>>, NoString, TRUE, "nil")
    /\ dbPrev = {}

\* INSERT ... ON CONFLICT (url) DO UPDATE in place of DO NOTHING.
DBInsert_Upserts(t, shortURL, originalURL, userID) ==
    IF HasURL(t, originalURL)
    THEN <<{row \in t : row.url # originalURL}
             \cup {Row(originalURL, shortURL, userID, FALSE)}, "nil">>
    ELSE IF HasShortURL(t, shortURL)
    THEN <<t, "failed to add URL to database">>
    ELSE <<t \cup {Row(originalURL, shortURL, userID, FALSE)}, "nil">>

\* INSERT INTO urls (url, short_url, user_id) VALUES ($1, $2, $3)
\* ON CONFLICT (url) DO NOTHING RETURNING short_url, then Scan: a row with
\* this url yields no row and sql.ErrNoRows; a row with this short_url and
\* another url violates the UNIQUE constraint of short_url.
DBInsert(t, shortURL, originalURL, userID) ==
    IF HasURL(t, originalURL)
    THEN <<t, "URL already exists">>
    ELSE IF HasShortURL(t, shortURL)
    THEN <<t, "failed to add URL to database">>
    ELSE <<t \cup {Row(originalURL, shortURL, userID, FALSE)}, "nil">>

\* DBStorage.AddURL on the table. dbOK: the database executes the statement.
DBStorageAddURL(shortURL, originalURL, userID, dbOK) ==
    /\ LET r == IF dbOK
                THEN DBInsert(table, shortURL, originalURL, userID)
                ELSE <<table, "failed to add URL to database">>
       IN  /\ table' = r[1]
           /\ dbLast' = DBCall("AddURL", shortURL :> originalURL, <<>>,
                               userID, dbOK, r[2])
    /\ dbPrev' = table

\* A DBStorage.AddURL call on its own.
DBAddURL(shortURL, originalURL, userID, dbOK) ==
    /\ DBStorageAddURL(shortURL, originalURL, userID, dbOK)
    /\ UNCHANGED <<storeVars, saverVars, mainVars, threadVars, handlerVars,
                   listingVars, restVars>>

\* The loop of DBStorage.AddURLs inside its transaction: a plain INSERT for
\* each entry, in the map's order; <<>> when an INSERT fails.
RECURSIVE DBInsertAll(_, _, _, _)
DBInsertAll(t, urls, rest, userID) ==
    IF rest = {} THEN {<<t>>}
    ELSE UNION {
           IF HasURL(t, urls[k]) \/ HasShortURL(t, k)
           THEN {<<>>}
           ELSE DBInsertAll(t \cup {Row(urls[k], k, userID, FALSE)}, urls,
                            rest \ {k}, userID) : k \in rest }

\* AddURLs without the transaction: the entries inserted before the failed
\* INSERT stay in the table.
DBAddURLs_NoTransaction(urls, userID, dbOK) ==
    /\ \E r \in DBInsertAll(table, urls, DOMAIN urls, userID) :
          LET done == dbOK /\ r # <<>>
              free == {k \in DOMAIN urls :
                         ~HasURL(table, urls[k]) /\ ~HasShortURL(table, k)}
          IN  /\ table' = IF done THEN r[1]
                          ELSE IF dbOK /\ free # {}
                          THEN LET k == CHOOSE x \in free : TRUE
                               IN  table \cup {Row(urls[k], k, userID, FALSE)}
                          ELSE table
              /\ dbLast' = DBCall("AddURLs", urls, <<>>, userID, dbOK,
                                  IF done THEN "nil"
                                  ELSE "failed to add URL to database")
    /\ dbPrev' = table
    /\ UNCHANGED <<storeVars, saverVars, mainVars, threadVars, handlerVars,
                   listingVars, restVars>>

\* DBStorage.AddURLs: tx.Rollback() on the first failed INSERT, else
\* tx.Commit().
DBAddURLs(urls, userID, dbOK) ==
    /\ \E r \in DBInsertAll(table, urls, DOMAIN urls, userID) :
          LET done == dbOK /\ r # <<>>
          IN  /\ table' = IF done THEN r[1] ELSE table
              /\ dbLast' = DBCall("AddURLs", urls, <<>>, userID, dbOK,
                                  IF done THEN "nil"
                                  ELSE "failed to add URL to database")
    /\ dbPrev' = table
    /\ UNCHANGED <<storeVars, saverVars, mainVars, threadVars, handlerVars,
                   listingVars, restVars>>

\* SELECT url, is_deleted FROM urls WHERE short_url = $1
DBGetURL(shortURL) ==
    IF ~HasShortURL(table, shortURL)
    THEN <<NoString, FALSE, FALSE>>
    ELSE LET row == CHOOSE x \in table : x.short_url = shortURL
         IN  <<row.url, TRUE, row.is_deleted>>

\* SELECT short_url FROM urls WHERE url = $1
DBGetShortURLByOriginalURL(originalURL) ==
    IF ~HasURL(table, originalURL)
    THEN <<NoString, FALSE>>
    ELSE LET row == CHOOSE x \in table : x.url = originalURL
         IN  <<row.short_url, TRUE>>

\* SELECT short_url, url FROM urls WHERE user_id = $1
DBGetURLsByUser(userID) ==
    LET hit == {row.short_url : row \in {x \in table : x.user_id = userID}}
    IN  [k \in hit |-> (CHOOSE x \in table : x.short_url = k).url]

\* UPDATE urls SET is_deleted = TRUE WHERE short_url = ANY($1): the
\* statement does not read userID.
DBUpdateDeleted(t, shortURLs, userID) ==
    {IF row.short_url \in {shortURLs[i] : i \in DOMAIN shortURLs}
     THEN [row EXCEPT !.is_deleted = TRUE] ELSE row : row \in t}

\* DBStorage.DeleteURLs.
DBDeleteURLs(shortURLs, userID, dbOK) ==
    /\ table' = IF dbOK THEN DBUpdateDeleted(table, shortURLs, userID)
                ELSE table
    /\ dbLast' = DBCall("DeleteURLs", EmptyMap, shortURLs, userID, dbOK,
                        IF dbOK THEN "nil" ELSE "exec failed")
    /\ dbPrev' = table
    /\ UNCHANGED <<storeVars, saverVars, mainVars, threadVars, handlerVars,
                   listingVars, restVars>>

\* ------------------------------------------------ TrustedSubnetMiddleware

\* Width of an address, in bits.
AddrBits == 3
Addrs == 0..(2^AddrBits - 1)

StatusForbidden == 403
StatusInternalServerError == 500

\* The texts cfg.TrustedSubnet may hold: empty, no CIDR at all, or
\* address/length, the length possibly beyond the width of the address.
Subnets ==
    {<<>>, <<"text">>}
       \cup {<<"cidr", a, n>> : a \in Addrs, n \in 0..(AddrBits + 1)}

\* The values r.Header.Get("X-Real-IP") may return: "" for no header, a text
\* that is no address, or an address text, its number possibly out of range.
Headers ==
    {<<>>, <<"text">>} \cup {<<"ip", a>> : a \in 0..(2^AddrBits)}

\* The leading n bits of address a, the others zero.
Masked(a, n) == (a \div 2^(AddrBits - n)) * 2^(AddrBits - n)

\* net.ParseCIDR(s): <<the network>>, or <<>> for an error.
ParseCIDR(s) ==
    IF Len(s) = 3 /\ s[1] = "cidr" /\ s[2] \in Addrs /\ s[3] \in 0..AddrBits
    THEN <<[ip |-> Masked(s[2], s[3]), ones |-> s[3]]>>
    ELSE <<>>

\* net.ParseIP(s): <<the address>>, or <<>> for nil.
ParseIP(s) ==
    IF Len(s) = 2 /\ s[1] = "ip" /\ s[2] \in Addrs THEN <<s[2]>> ELSE <<>>

\* Contains that compares the whole address.
Contains_WholeAddress(subnet, ip) == ip = subnet.ip

\* subnet.Contains(ip)
Contains(subnet, ip) == Masked(ip, subnet.ones) = subnet.ip

\* No request went through the middleware yet.
NoGate == [seen |-> FALSE, clientIP |-> <<>>, status |-> 0, invoked |-> FALSE]

\* What a request leaves: the status the middleware wrote (0 when it wrote
\* none) and whether next.ServeHTTP was called.
Gate(clientIP, status, invoked) ==
    [seen |-> TRUE, clientIP |-> clientIP, status |-> status,
     invoked |-> invoked]

\* The default configuration: no trusted subnet.
GateInit == trustedSubnet = <<>> /\ gateW = NoGate

\* The handler TrustedSubnetMiddleware(trustedSubnet)(next) returns, on a
\* request whose X-Real-IP header reads clientIP.
TrustedSubnetRequest(clientIP) ==
    /\ gateW' =
          IF trustedSubnet = <<>>
          THEN Gate(clientIP, StatusForbidden, FALSE)
          ELSE IF clientIP = <<>>
          THEN Gate(clientIP, StatusForbidden, FALSE)
          ELSE IF ParseCIDR(trustedSubnet) = <<>>
          THEN Gate(clientIP, StatusInternalServerError, FALSE)
          ELSE IF ParseIP(clientIP) = <<>>
          THEN Gate(clientIP, StatusForbidden, FALSE)
          ELSE IF ~Contains(ParseCIDR(trustedSubnet)[1], ParseIP(clientIP)[1])
          THEN Gate(clientIP, StatusForbidden, FALSE)
          ELSE Gate(clientIP, 0, TRUE)
    /\ UNCHANGED <<storeVars, saverVars, mainVars, threadVars, edgeVars,
                   trustedSubnet, lockVars, logVars, delVars, restartVars, atomVars>>

\* ------------------------------------------- the service over DBStorage

\* The statuses HandlePost writes for a response of ShortenURL.
StatusCreated == 201
StatusConflict == 409

\* HandlePost after serviceInstance.ShortenURL returned: an error is
\* answered with 500, AlreadyExists with 409, anything else with 201.
PostStatus(r) ==
    IF r.err # "nil" THEN StatusInternalServerError
    ELSE IF r.AlreadyExists THEN StatusConflict
    ELSE StatusCreated

\* The answer to "URL already exists" that carries the id just generated.
ExistingResponse_ReturnsNew(shortURL, originalURL, userID, lookupOK) ==
    [NoResp EXCEPT !.op = "ShortenURL", !.err = "nil",
                   !.shortURLs = <<shortURL>>, !.urls = <<originalURL>>,
                   !.user = userID, !.AlreadyExists = TRUE]

\* Service.ShortenURL when AddURL said "URL already exists":
\* existingShortURL, exists := s.storage.GetShortURLByOriginalURL(
\* req.OriginalURL); lookupOK: the database executes the query.
ExistingResponse(shortURL, originalURL, userID, lookupOK) ==
    LET found == DBGetShortURLByOriginalURL(originalURL)
    IN  IF lookupOK /\ found[2]
        THEN [NoResp EXCEPT !.op = "ShortenURL", !.err = "nil",
                            !.shortURLs = <<found[1]>>,
                            !.urls = <<originalURL>>, !.user = userID,
                            !.AlreadyExists = TRUE]
        ELSE [NoResp EXCEPT !.op = "ShortenURL",
                            !.err = "failed to get existing short URL",
                            !.urls = <<originalURL>>, !.user = userID]

\* Service.ShortenURL over DBStorage up to the save: shortURL :=
\* generateShortURL(); s.storage.AddURL. "URL already exists" is answered
\* with the existing short URL, any other error with "failed to save URL
\* mapping"; after a nil error storage.SaveSingleURLMapping is entered.
ShortenURLOverDB(originalURL, userID, dbOK, lookupOK) ==
    /\ req.op = "none"
    /\ \E shortURL \in ShortIDs :
          /\ DBStorageAddURL(shortURL, originalURL, userID, dbOK)
          /\ IF dbLast'.err = "nil"
             THEN /\ req' = [NoReq EXCEPT !.op = "ShortenURL", !.step = "add",
                                          !.urls = shortURL :> originalURL,
                                          !.rest = {shortURL},
                                          !.asked = <<originalURL>>,
                                          !.out = <<shortURL>>,
                                          !.user = userID]
                  /\ GetBatchSaver(FileStorage)
                  /\ resp' = NoResp
             ELSE /\ req' = NoReq
                  /\ UNCHANGED <<globalSaver, got>>
                  /\ resp' =
                       IF dbLast'.err = "URL already exists"
                       THEN ExistingResponse(shortURL, originalURL, userID,
                                             lookupOK)
                       ELSE [NoResp EXCEPT !.op = "ShortenURL",
                                           !.err = "failed to save URL mapping",
                                           !.urls = <<originalURL>>,
                                           !.user = userID]
    /\ served' = served + 1
    /\ logs' = {}
    /\ UNCHANGED <<storeVars, saverVars, mainVars, handlerVars, listingVars,
                   holder, gateVars, lockVars, owed, delVars, restartVars, atomVars>>

\* One turn of the loop of ShortenURLBatch over DBStorage:
\* generateShortURL, s.storage.AddURL; an error other than "URL already
\* exists" ends the request with "failed to save URL mapping"; otherwise
\* the generated shortURL goes into the response and into urlsToSave, and
\* after the last turn storage.SaveURLMappings is entered.
BatchItemOverDB(dbOK) ==
    /\ req.op = "ShortenURLBatch"
    /\ req.step = "items"
    /\ \E shortURL \in ShortIDs :
          /\ DBStorageAddURL(shortURL, Head(req.items), req.user, dbOK)
          /\ LET urlsToSave == (shortURL :> Head(req.items)) @@ req.urls
                 next == [req EXCEPT !.items = Tail(req.items),
                                     !.out = Append(req.out, shortURL),
                                     !.urls = urlsToSave]
             IN  IF dbLast'.err \notin {"nil", "URL already exists"}
                 THEN /\ req' = NoReq
                      /\ resp' = [NoResp EXCEPT
                                     !.op = "ShortenURLBatch",
                                     !.err = "failed to save URL mapping",
                                     !.urls = req.asked, !.user = req.user]
                      /\ UNCHANGED <<globalSaver, got>>
                 ELSE IF Tail(req.items) # <<>>
                 THEN /\ req' = next
                      /\ UNCHANGED <<globalSaver, got, resp>>
                 ELSE /\ req' = [next EXCEPT !.step = "add",
                                             !.rest = DOMAIN urlsToSave]
                      /\ GetBatchSaver(FileStorage)
                      /\ UNCHANGED resp
    /\ UNCHANGED <<storeVars, saverVars, mainVars, handlerVars, listingVars,
                   holder, served, restVars>>

\* ------------------------------------------------------------ the two locks

\* The threads of the process: two request threads, the goroutine of
\* periodicSave, and main at shutdown.
Threads == {"req1", "req2", "tick", "main"}

\* What the calls on the two locks leave alone.
exceptLocks == <<storeVars, saverVars, mainVars, threadVars, edgeVars,
                 gateVars, logVars, delVars, restartVars, atomVars>>

NoStoreMu == [writer |-> {}, readers |-> {}]

\* No lock is held and no thread is on a path.
LockInit ==
    /\ storeMu = NoStoreMu
    /\ saverMu = {}
    /\ script = [t \in Threads |-> <<>>]

RECURSIVE Repeat(_, _)
Repeat(calls, n) == IF n = 0 THEN <<>> ELSE calls \o Repeat(calls, n - 1)

\* s.mu.Lock(); defer s.mu.Unlock(): AddURL, AddURLs, DeleteURLs.
StoreWriteLocks == << <<"Lock", "s.mu">>, <<"Unlock", "s.mu">> >>

\* s.mu.RLock(); defer s.mu.RUnlock(): GetURL, GetURLsByUser, GetAllURLs,
\* GetShortURLByOriginalURL, Count, GetStats.
StoreReadLocks == << <<"RLock", "s.mu">>, <<"RUnlock", "s.mu">> >>

\* b.mu.Lock(); defer b.mu.Unlock(): BatchFileSaver.AddURL, and forceSave
\* with saveToFile inside.
SaverLocks == << <<"Lock", "b.mu">>, <<"Unlock", "b.mu">> >>

\* ShortenURL that saves to the file from inside the store's lock.
ShortenURLLocks_SavesInsideStore ==
    << <<"Lock", "s.mu">> >> \o SaverLocks \o SaverLocks
       \o << <<"Unlock", "s.mu">> >>

\* Service.ShortenURL: s.storage.AddURL, then SaveSingleURLMapping, which
\* is saver.AddURL and saver.forceSave.
ShortenURLLocks == StoreWriteLocks \o SaverLocks \o SaverLocks

\* Service.ShortenURLBatch on n items: n times s.storage.AddURL, then
\* SaveURLMappings, which is n times saver.AddURL and saver.forceSave.
ShortenURLBatchLocks(n) ==
    Repeat(StoreWriteLocks, n) \o Repeat(SaverLocks, n) \o SaverLocks

\* main at shutdown: storageInstance.GetAllURLs(), then SaveURLMappings on
\* the n entries of urlMap.
ShutdownLocks(n) == StoreReadLocks \o Repeat(SaverLocks, n) \o SaverLocks

\* periodicSave on a tick: b.forceSave().
PeriodicSaveLocks == SaverLocks

\* The paths a thread may take.
PathsOf(t) ==
    IF t = "tick" THEN {PeriodicSaveLocks}
    ELSE IF t = "main" THEN {ShutdownLocks(n) : n \in 0..NumShortIDs}
    ELSE {ShortenURLLocks, StoreReadLocks, StoreWriteLocks}
            \cup {ShortenURLBatchLocks(n) : n \in 1..MaxBatch}

\* Thread t sets out on a path.
BeginPath(t, path) ==
    /\ script[t] = <<>>
    /\ path \in PathsOf(t)
    /\ path # <<>>
    /\ script' = [script EXCEPT ![t] = path]
    /\ UNCHANGED <<storeMu, saverMu>>

\* The next lock call of thread t can return now.
CanStep(t) ==
    /\ script[t] # <<>>
    /\ LET call == Head(script[t])
       IN  CASE call = <<"Lock", "s.mu">> ->
                   storeMu.writer = {} /\ storeMu.readers = {}
             [] call = <<"RLock", "s.mu">> -> storeMu.writer = {}
             [] call = <<"Lock", "b.mu">> -> saverMu = {}
             [] OTHER -> TRUE

\* The next lock call of thread t returns.
LockStep(t) ==
    /\ CanStep(t)
    /\ LET call == Head(script[t])
       IN  /\ storeMu' =
                 CASE call = <<"Lock", "s.mu">> ->
                         [storeMu EXCEPT !.writer = {t}]
                   [] call = <<"Unlock", "s.mu">> ->
                         [storeMu EXCEPT !.writer = {}]
                   [] call = <<"RLock", "s.mu">> ->
                         [storeMu EXCEPT !.readers = storeMu.readers \cup {t}]
                   [] call = <<"RUnlock", "s.mu">> ->
                         [storeMu EXCEPT !.readers = storeMu.readers \ {t}]
                   [] OTHER -> storeMu
           /\ saverMu' =
                 CASE call = <<"Lock", "b.mu">> -> {t}
                   [] call = <<"Unlock", "b.mu">> -> {}
                   [] OTHER -> saverMu
    /\ script' = [script EXCEPT ![t] = Tail(script[t])]

\* ------------------------------------- URLStorage: AddURLs beside a reader

\* No AddURLs call is inside s.mu.
NotAdding == [busy |-> FALSE, rest |-> {}]

\* No read yet.
NoRead == [op |-> "none", arg |-> NoString, pc |-> "none", result |-> <<>>]

AtomInit == adding = NotAdding /\ seen = NoRead

exceptAtom == <<saverVars, mainVars, threadVars, edgeVars, gateVars, saverMu,
                script, logVars, delVars, restartVars>>

\* The reads of the store and their arguments.
Reads ==
    {<<"GetURL", k>> : k \in ShortIDs}
       \cup {<<"GetURLsByUser", o>> : o \in UserIDs}
       \cup {<<"Count", NoString>>, <<"GetStats", NoString>>}

\* What a read returns on the map m.
ReadOf(op, arg, m) ==
    CASE op = "GetURL" -> GetURLOf(m, arg)
      [] op = "GetURLsByUser" -> GetURLsByUserOf(m, arg)
      [] op = "Count" -> <<Cardinality(DOMAIN m)>>
      [] OTHER -> GetStatsOf(m)

\* AddURLs: s.mu.Lock() returns once no writer and no reader holds s.mu.
AddURLsEnter(urls, userID) ==
    /\ ~adding.busy
    /\ seen.pc # "reading"
    /\ storeMu = NoStoreMu
    /\ storeMu' = [storeMu EXCEPT !.writer = {"req1"}]
    /\ adding' = [busy |-> TRUE, rest |-> DOMAIN urls]
    /\ seen' = NoRead
    /\ last' = Call("AddURLs", urls, <<>>, userID, "nil")
    /\ prev' = URLs
    /\ Inserting(urls)
    /\ UNCHANGED <<URLs, exceptAtom>>

\* One turn of the range loop of AddURLs, in the map's order:
\* s.URLs[shortURL] = URLInfo{OriginalURL: originalURL, UserID: userID}
AddURLsPut(shortURL) ==
    /\ adding.busy
    /\ shortURL \in adding.rest
    /\ URLs' = Put(URLs, shortURL, last.urls[shortURL], last.userID)
    /\ adding' = [adding EXCEPT !.rest = adding.rest \ {shortURL}]
    /\ UNCHANGED <<last, prev, inserted, fresh, putURL, storeMu, seen,
                   exceptAtom>>

\* AddURLs returns: the deferred s.mu.Unlock().
AddURLsLeave ==
    /\ adding.busy
    /\ adding.rest = {}
    /\ adding' = NotAdding
    /\ storeMu' = [storeMu EXCEPT !.writer = {}]
    /\ UNCHANGED <<storeVars, seen, exceptAtom>>

\* A read that enters without waiting for the writer.
ReadEnter_NoLock(op, arg) ==
    /\ seen.pc # "reading"
    /\ storeMu' = [storeMu EXCEPT !.readers = storeMu.readers \cup {"req2"}]
    /\ seen' = [op |-> op, arg |-> arg, pc |-> "reading", result |-> <<>>]
    /\ UNCHANGED <<storeVars, adding, exceptAtom>>

\* GetURL, GetURLsByUser, Count, GetStats: s.mu.RLock() returns once no
\* writer holds s.mu.
ReadEnter(op, arg) ==
    /\ seen.pc # "reading"
    /\ storeMu.writer = {}
    /\ storeMu' = [storeMu EXCEPT !.readers = storeMu.readers \cup {"req2"}]
    /\ seen' = [op |-> op, arg |-> arg, pc |-> "reading", result |-> <<>>]
    /\ UNCHANGED <<storeVars, adding, exceptAtom>>

\* The read returns what it found in s.URLs: the deferred s.mu.RUnlock().
ReadLeave ==
    /\ seen.pc = "reading"
    /\ seen' = [seen EXCEPT !.pc = "done",
                            !.result = ReadOf(seen.op, seen.arg, URLs)]
    /\ storeMu' = [storeMu EXCEPT !.readers = storeMu.readers \ {"req2"}]
    /\ UNCHANGED <<storeVars, adding, exceptAtom>>

\* Nothing logged, no error dropped.
LogInit == logs = {} /\ owed = {}

\* ------------------------------------ handlers: DELETE /api/user/urls

StatusAccepted == 202

\* log.Println("URLs deleted successfully")
DeletedLog == "URLs deleted successfully"

\* The bodies of a DELETE request: a JSON array of short ids, or a text
\* json.Decode rejects.
InvalidBody == <<"invalid">>
DeleteBodies == {<<"ids", l>> : l \in IDLists} \cup {InvalidBody}

\* The user id in the request's context; none is taken as "".
ContextUsers == UserIDs \cup {NoString}

\* No DELETE request yet. pc is the handler's position, g1 the goroutine
\* that calls the service and sends on deleteChan, g2 the goroutine that
\* receives; applied tells that DeleteURLs has run for this request, and
\* crashed that an unrecovered panic has ended the process.
NoDel == [pc |-> "idle", status |-> 0, shortURLs |-> <<>>,
          userID |-> NoString, g1 |-> "none", g2 |-> "none",
          applied |-> FALSE, crashed |-> FALSE]

DelInit == del = NoDel

exceptDel == <<saverVars, mainVars, threadVars, edgeVars, gateVars, lockVars,
               restartVars, atomVars>>

\* The request before this one has run to its end.
NoneInFlight ==
    /\ del.pc \in {"idle", "returned"}
    /\ del.g1 \in {"none", "done"}
    /\ del.g2 \in {"none", "done"}
    /\ ~del.crashed

\* HandleDeleteUserURLs up to the first go statement: the method and the
\* body are checked (400), userID is read from the context, deleteChan is
\* made and the first goroutine is started.
HandleDeleteUserURLs(method, body, userID) ==
    /\ phase = "serving"
    /\ NoneInFlight
    /\ del' = IF method # "DELETE" \/ body = InvalidBody
              THEN [NoDel EXCEPT !.pc = "returned",
                                 !.status = StatusBadRequest]
              ELSE [NoDel EXCEPT !.pc = "spawned", !.shortURLs = body[2],
                                 !.userID = userID, !.g1 = "ready"]
    /\ logs' = {}
    /\ UNCHANGED <<storeVars, exceptDel, owed>>

\* w.WriteHeader(http.StatusAccepted); the second goroutine is started and
\* the handler returns.
DeleteWriteHeader ==
    /\ ~del.crashed
    /\ del.pc = "spawned"
    /\ del' = [del EXCEPT !.pc = "returned", !.status = StatusAccepted,
                          !.g2 = "receiving"]
    /\ UNCHANGED <<storeVars, exceptDel, logVars>>

\* The first goroutine: serviceInstance.DeleteUserURLs(r.Context(),
\* serviceReq), which is s.storage.DeleteURLs(req.ShortURLs, req.UserID).
\* On a nil serviceInstance the call panics in a goroutine no recover
\* covers, and the process ends.
DeleteGoroutine ==
    /\ ~del.crashed
    /\ del.g1 = "ready"
    /\ IF serviceInstance = "nil"
       THEN /\ del' = [del EXCEPT !.g1 = "panicked", !.crashed = TRUE]
            /\ UNCHANGED storeVars
       ELSE /\ DeleteURLs(del.shortURLs, del.userID)
            /\ del' = [del EXCEPT !.g1 = "sending", !.applied = TRUE]
    /\ UNCHANGED <<exceptDel, logVars>>

\* deleteChan <- err in the first goroutine meets err := <-deleteChan in
\* the second, which logs the outcome; both goroutines end.
DeleteChanMeet ==
    /\ ~del.crashed
    /\ del.g1 = "sending"
    /\ del.g2 = "receiving"
    /\ del' = [del EXCEPT !.g1 = "done", !.g2 = "done"]
    /\ logs' = {DeletedLog}
    /\ UNCHANGED <<storeVars, exceptDel, owed>>

\* The trusted subnet, the locks, the log and the delete request at the
\* start.
RestInit ==
    /\ GateInit /\ LockInit /\ LogInit /\ DelInit /\ goneBefore = {}
    /\ AtomInit

\* The package variables of handlers, the maps outside the store and the
\* relational table, as a new process has them.
EdgeInit == HandlersInit /\ ListingInit /\ DBInit

\* --------------------------------------------------------- specifications

Init ==
    /\ StoreInit /\ SaverInit /\ MainInit /\ SaverMade /\ ThreadInit
    /\ EdgeInit /\ RestInit

StartupInit ==
    /\ StoreInit
    /\ \E f \in SnapshotFiles : SaverInitWith(f)
    /\ MainInit
    /\ SaverNotMade
    /\ ThreadInit
    /\ EdgeInit /\ RestInit

StartupNext ==
    \/ \E openOK \in BOOLEAN : LoadSnapshot(openOK)
    \/ \E s \in ShortIDs : ReplayEntry(s)
    \/ InitStorage

\* The start of the process on any snapshot file, up to the first request.
SpecStartup == StartupInit /\ [][StartupNext]_vars

Next ==
    \/ \E s \in ShortIDs, u \in OriginalURLs, o \in UserIDs :
          AddURL(s, u, o) /\ UNCHANGED exceptStore
    \/ \E m \in URLMaps, o \in UserIDs : AddURLs(m, o) /\ UNCHANGED exceptStore
    \/ \E l \in IDLists, o \in UserIDs : DeleteURLs(l, o) /\ UNCHANGED exceptStore

\* The in-memory store under any sequence of calls.
Spec == Init /\ [][Next]_vars

SaverNext ==
    \/ \E s \in ShortIDs, u \in PendingURLValues :
          SaverAddURL(s, u) /\ UNCHANGED exceptSaver
    \/ ForceSaveBegin /\ UNCHANGED exceptSaver
    \/ \E ioOK \in BOOLEAN : CreateTmp(ioOK) /\ UNCHANGED exceptSaver
    \/ \E s \in ShortIDs, g \in UUIDs, ioOK \in BOOLEAN :
          WriteEntry(s, g, ioOK) /\ UNCHANGED exceptSaver
    \/ \E ioOK \in BOOLEAN : RenameTmp(ioOK) /\ UNCHANGED exceptSaver
    \/ \E ioOK \in BOOLEAN : DeferredFlush(ioOK) /\ UNCHANGED exceptSaver
    \/ Crash /\ UNCHANGED exceptSaver
    \/ Restart /\ UNCHANGED exceptSaver

\* The snapshot writer under any interleaving of AddURL, flushes, I/O
\* failures and crashes.
SpecSaver == Init /\ [][SaverNext]_vars

SingletonInit ==
    /\ StoreInit /\ SaverInit /\ MainInit /\ SaverNotMade /\ ThreadInit
    /\ EdgeInit /\ RestInit

SingletonNext ==
    \/ \E p \in Paths : GetBatchSaverCall(p)
    \/ \E p \in Paths, s \in ShortIDs, u \in OriginalURLs :
          SaveSingleURLMapping(p, s, u)
    \/ \E p \in Paths, m \in URLMaps : SaveURLMappings(p, m)
    \/ \E s \in ShortIDs : SaveAdd(s)
    \/ SaveForce
    \/ Tick
    \/ \E ioOK \in BOOLEAN : FlushStep(CreateTmp(ioOK))
    \/ \E s \in ShortIDs, g \in UUIDs, ioOK \in BOOLEAN :
          FlushStep(WriteEntry(s, g, ioOK))
    \/ \E ioOK \in BOOLEAN : FlushStep(RenameTmp(ioOK))
    \/ \E ioOK \in BOOLEAN : FlushStep(DeferredFlush(ioOK))
    \/ SaveReturn

\* The package functions of osfile.go called with any paths, and the
\* periodic flush of the saver they share.
SpecSingleton == SingletonInit /\ [][SingletonNext]_vars

ServiceInit ==
    /\ StoreInit /\ SaverInit /\ Started /\ SaverNotMade /\ ThreadInit
    /\ EdgeInit /\ RestInit

ServiceNext ==
    \/ \E u \in OriginalURLs, o \in UserIDs :
          served < MaxRequests /\ ShortenURL(u, o)
    \/ ShortenURLReturn
    \/ \E b \in Batches, o \in UserIDs :
          served < MaxRequests /\ ShortenURLBatch(b, o)
    \/ BatchItem
    \/ ShortenURLBatchReturn
    \/ \E s \in ShortIDs : SaveAdd(s)
    \/ SaveForce
    \/ Tick
    \/ \E ioOK \in BOOLEAN : FlushStep(CreateTmp(ioOK))
    \/ \E s \in ShortIDs, g \in UUIDs, ioOK \in BOOLEAN :
          FlushStep(WriteEntry(s, g, ioOK))
    \/ \E ioOK \in BOOLEAN : FlushStep(RenameTmp(ioOK))
    \/ \E ioOK \in BOOLEAN : FlushStep(DeferredFlush(ioOK))

\* The service over the in-memory store with file persistence configured:
\* one request thread and the periodic flush.
SpecService == ServiceInit /\ [][ServiceNext]_vars

HTTPInit ==
    /\ StoreInit /\ SaverInit /\ Replayed /\ SaverNotMade /\ ThreadInit
    /\ EdgeInit /\ RestInit

HTTPNext ==
    \/ InitStorage
    \/ InitService
    \/ \E s \in ShortIDs, u \in OriginalURLs, o \in UserIDs :
          AddURL(s, u, o) /\ UNCHANGED exceptStore
    \/ \E l \in IDLists, o \in UserIDs : DeleteURLs(l, o) /\ UNCHANGED exceptStore
    \/ \E m \in Methods, id \in ShortIDs : HandleGet(m, id)

\* The handlers package as main wires it (InitStorage) and as the tests wire
\* it (InitStorage and InitService), serving GET /{id} over the in-memory
\* store.
SpecHTTP == HTTPInit /\ [][HTTPNext]_vars

ListingSpecInit ==
    /\ StoreInit /\ SaverInit /\ Started /\ SaverNotMade /\ ThreadInit
    /\ EdgeInit /\ RestInit

ListingNext ==
    \/ \E s \in ShortIDs, u \in OriginalURLs, o \in UserIDs :
          AddURL(s, u, o) /\ UNCHANGED exceptStore
    \/ \E l \in IDLists, o \in UserIDs : DeleteURLs(l, o) /\ UNCHANGED exceptStore
    \/ \E o \in UserIDs, r \in Refs, mine \in BOOLEAN :
          GetURLsByUserCall(o, r, mine)
    \/ \E mine \in BOOLEAN : GetAllURLsCall(mine)
    \/ \E k \in ShortIDs, v \in OriginalURLs : CallerSet(k, v)
    \/ \E k \in ShortIDs : CallerDelete(k)
    \/ CallerDrop
    \/ \E r \in Refs : PoolDrop(r)

\* The in-memory store, the callers of its listings and the maps they hold.
SpecListing == ListingSpecInit /\ [][ListingNext]_vars

DBSpecInit ==
    /\ StoreInit /\ SaverInit /\ Started /\ SaverNotMade /\ ThreadInit
    /\ EdgeInit /\ RestInit

DBNext ==
    \/ \E s \in ShortIDs, u \in OriginalURLs, o \in UserIDs, dbOK \in BOOLEAN :
          DBAddURL(s, u, o, dbOK)
    \/ \E m \in URLMaps, o \in UserIDs, dbOK \in BOOLEAN : DBAddURLs(m, o, dbOK)
    \/ \E l \in IDLists, o \in UserIDs, dbOK \in BOOLEAN :
          DBDeleteURLs(l, o, dbOK)

\* The relational backend under any sequence of calls.
SpecDB == DBSpecInit /\ [][DBNext]_vars

GateSpecInit ==
    /\ StoreInit /\ SaverInit /\ Started /\ SaverNotMade /\ ThreadInit
    /\ EdgeInit
    /\ trustedSubnet \in Subnets
    /\ gateW = NoGate
    /\ LockInit /\ LogInit /\ DelInit /\ goneBefore = {} /\ AtomInit

GateNext == \E h \in Headers : TrustedSubnetRequest(h)

\* The stats route behind the middleware, under any configured subnet.
SpecGate == GateSpecInit /\ [][GateNext]_vars

\* periodicSave calls forceSave on a tick of the ticker.
PeriodicTick == ForceSaveBegin /\ UNCHANGED exceptSaver

\* The steps of saveToFile when no file operation fails.
FlushNoError ==
    \/ CreateTmp(TRUE) /\ UNCHANGED exceptSaver
    \/ \E s \in ShortIDs, g \in UUIDs :
          WriteEntry(s, g, TRUE) /\ UNCHANGED exceptSaver
    \/ RenameTmp(TRUE) /\ UNCHANGED exceptSaver
    \/ DeferredFlush(TRUE) /\ UNCHANGED exceptSaver

PersistNext ==
    \/ \E s \in ShortIDs, u \in PendingURLValues :
          SaverAddURL(s, u) /\ UNCHANGED exceptSaver
    \/ PeriodicTick
    \/ FlushNoError

\* The snapshot writer with no I/O error: the ticker keeps firing and a
\* flush that has begun runs to its end.
SpecPersist ==
    /\ Init
    /\ [][PersistNext]_vars
    /\ WF_vars(PeriodicTick)
    /\ WF_vars(FlushNoError)

\* The stores a shutdown may find: any records made by AddURL.
ShutdownInit ==
    /\ \E m \in URLMaps, o \in UserIDs :
          URLs = [k \in DOMAIN m |-> URLInfo(m[k], o)]
    /\ last = NoCall
    /\ prev = URLs
    /\ inserted = {}
    /\ fresh = TRUE
    /\ putURL = EmptyMap
    /\ SaverInit /\ Started /\ SaverMade /\ ThreadInit
    /\ EdgeInit /\ RestInit

ShutdownNext ==
    \/ ShutdownSave
    \/ \E s \in ShortIDs : SaveAdd(s)
    \/ SaveForce
    \/ phase # "stopped" /\ Tick
    \/ \E ioOK \in BOOLEAN : FlushStep(CreateTmp(ioOK))
    \/ \E s \in ShortIDs, g \in UUIDs, ioOK \in BOOLEAN :
          FlushStep(WriteEntry(s, g, ioOK))
    \/ \E ioOK \in BOOLEAN : FlushStep(RenameTmp(ioOK))
    \/ \E ioOK \in BOOLEAN : FlushStep(DeferredFlush(ioOK))
    \/ ShutdownDone

\* The graceful shutdown of a process with file persistence configured:
\* main saves the store while the periodic flush goes on.
SpecShutdown == ShutdownInit /\ [][ShutdownNext]_vars

ServiceDBNext ==
    \/ \E u \in OriginalURLs, o \in UserIDs, dbOK \in BOOLEAN,
          lookupOK \in BOOLEAN :
          served < MaxRequests /\ ShortenURLOverDB(u, o, dbOK, lookupOK)
    \/ ShortenURLReturn
    \/ \E s \in ShortIDs : SaveAdd(s)
    \/ SaveForce
    \/ Tick
    \/ \E ioOK \in BOOLEAN : FlushStep(CreateTmp(ioOK))
    \/ \E s \in ShortIDs, g \in UUIDs, ioOK \in BOOLEAN :
          FlushStep(WriteEntry(s, g, ioOK))
    \/ \E ioOK \in BOOLEAN : FlushStep(RenameTmp(ioOK))
    \/ \E ioOK \in BOOLEAN : FlushStep(DeferredFlush(ioOK))

\* The service over DBStorage with file persistence configured: one
\* request thread and the periodic flush.
SpecServiceDB == ServiceInit /\ [][ServiceDBNext]_vars

\* The stores a DELETE request may find, the service wired or not.
DeleteInit ==
    /\ \E m \in URLMaps, o \in UserIDs :
          URLs = [k \in DOMAIN m |-> URLInfo(m[k], o)]
    /\ last = NoCall
    /\ prev = URLs
    /\ inserted = {}
    /\ fresh = TRUE
    /\ putURL = EmptyMap
    /\ SaverInit /\ Started /\ SaverNotMade /\ ThreadInit
    /\ EdgeInit /\ RestInit

DeleteNext ==
    \/ NoneInFlight /\ InitService
    \/ \E m \in {"DELETE", "GET"}, b \in DeleteBodies, o \in ContextUsers :
          HandleDeleteUserURLs(m, b, o)
    \/ DeleteWriteHeader
    \/ DeleteGoroutine
    \/ DeleteChanMeet

\* DELETE /api/user/urls as main wires the handlers (InitStorage only) and
\* as the tests wire them (InitService too); the handler and its
\* goroutines are scheduled fairly.
SpecDelete ==
    /\ DeleteInit
    /\ [][DeleteNext]_vars
    /\ WF_vars(DeleteWriteHeader)
    /\ WF_vars(DeleteGoroutine)
    /\ WF_vars(DeleteChanMeet)

RestartNext ==
    \/ \E l \in IDLists, o \in UserIDs :
          /\ phase = "serving"
          /\ req.op = "none"
          /\ DeleteURLs(l, o) /\ UNCHANGED exceptStore
    \/ ShutdownSave
    \/ \E s \in ShortIDs : SaveAdd(s)
    \/ SaveForce
    \/ phase # "stopped" /\ Tick
    \/ \E ioOK \in BOOLEAN : FlushStep(CreateTmp(ioOK))
    \/ \E s \in ShortIDs, g \in UUIDs, ioOK \in BOOLEAN :
          FlushStep(WriteEntry(s, g, ioOK))
    \/ \E ioOK \in BOOLEAN : FlushStep(RenameTmp(ioOK))
    \/ \E ioOK \in BOOLEAN : FlushStep(DeferredFlush(ioOK))
    \/ ShutdownDone
    \/ ProcessRestart
    \/ \E openOK \in BOOLEAN : LoadSnapshot(openOK)
    \/ \E s \in ShortIDs : ReplayEntry(s)
    \/ InitStorage

\* Lives of the process one after another: deletes while serving, the
\* graceful shutdown with its save, the restart and the replay of the
\* snapshot file.
SpecRestart == ShutdownInit /\ [][RestartNext]_vars

BatchDBNext ==
    \/ \E b \in Batches, o \in UserIDs :
          served < MaxRequests /\ ShortenURLBatch(b, o)
    \/ \E dbOK \in BOOLEAN : BatchItemOverDB(dbOK)
    \/ ShortenURLBatchReturn
    \/ \E s \in ShortIDs : SaveAdd(s)
    \/ SaveForce
    \/ Tick
    \/ \E ioOK \in BOOLEAN : FlushStep(CreateTmp(ioOK))
    \/ \E s \in ShortIDs, g \in UUIDs, ioOK \in BOOLEAN :
          FlushStep(WriteEntry(s, g, ioOK))
    \/ \E ioOK \in BOOLEAN : FlushStep(RenameTmp(ioOK))
    \/ \E ioOK \in BOOLEAN : FlushStep(DeferredFlush(ioOK))

\* Batch requests to the service over DBStorage with file persistence
\* configured, and the periodic flush.
SpecBatchDB == ServiceInit /\ [][BatchDBNext]_vars

AtomNext ==
    \/ \E m \in URLMaps, o \in UserIDs : AddURLsEnter(m, o)
    \/ \E s \in ShortIDs : AddURLsPut(s)
    \/ AddURLsLeave
    \/ \E r \in Reads : ReadEnter(r[1], r[2])
    \/ ReadLeave

\* AddURLs calls of one thread, entry by entry inside s.mu, beside the reads
\* of another thread.
SpecAtom == Init /\ [][AtomNext]_vars

LocksInit ==
    /\ StoreInit /\ SaverInit /\ Started /\ SaverMade /\ ThreadInit
    /\ EdgeInit /\ RestInit

LocksNext ==
    \/ \E t \in Threads : \E path \in PathsOf(t) :
          BeginPath(t, path) /\ UNCHANGED exceptLocks
    \/ \E t \in Threads : LockStep(t) /\ UNCHANGED exceptLocks

\* The request threads, the periodic flush and the shutdown save as the
\* calls they make on URLStorage.mu and BatchFileSaver.mu.
SpecLocks == LocksInit /\ [][LocksNext]_vars

\* ------------------------------------------------- URLStorage: the claims

Range(f) == {f[i] : i \in DOMAIN f}

Live(m) == {k \in DOMAIN m : ~m[k].IsDeleted}

\* C1: round trip. After AddURL/AddURLs of triples with pairwise distinct
\* short ids (and nothing else), GetURL of each id returns the original URL
\* it was inserted with, exists = true and deleted = false.
C1_RoundTrip ==
    fresh => /\ DOMAIN putURL = inserted
             /\ \A id \in DOMAIN putURL :
                    GetURL(id) = <<putURL[id], TRUE, FALSE>>

C1_Witness ==
    /\ fresh
    /\ Cardinality(inserted) >= 2
    /\ last.op \in {"AddURL", "AddURLs"}
    /\ prev # URLs

\* C2: GetURL is three-valued. exists = false for an id never inserted;
\* exists = true, deleted = false for the record an insert just wrote;
\* exists = true, deleted = true (and the same URL) for a record its owner
\* just deleted.
C2_ThreeValued ==
    /\ \A id \in ShortIDs \ inserted : GetURL(id) = <<NoString, FALSE, FALSE>>
    /\ \A id \in inserted : GetURL(id)[2]
    /\ last.op \in {"AddURL", "AddURLs"} =>
          \A id \in DOMAIN last.urls :
              GetURL(id) = <<last.urls[id], TRUE, FALSE>>
    /\ last.op = "DeleteURLs" =>
          \A id \in Range(last.shortURLs) :
              (id \in DOMAIN prev /\ prev[id].UserID = last.userID) =>
                  GetURL(id) = <<prev[id].OriginalURL, TRUE, TRUE>>

C2_Witness ==
    /\ last.op = "DeleteURLs"
    /\ \E id \in Range(last.shortURLs) :
          /\ id \in DOMAIN prev
          /\ ~prev[id].IsDeleted
          /\ GetURL(id) = <<prev[id].OriginalURL, TRUE, TRUE>>
    /\ \E id \in ShortIDs : ~GetURL(id)[2]

\* C3: deletion authorization. DeleteURLs(ids, requester) returns no error,
\* marks exactly the listed records whose owner is the requester, and leaves
\* every other record (URL, owner, flag) and the set of ids unchanged.
C3_DeleteAuthorized ==
    last.op = "DeleteURLs" =>
        /\ last.err = "nil"
        /\ DOMAIN URLs = DOMAIN prev
        /\ \A id \in DOMAIN prev :
              URLs[id] = IF /\ id \in Range(last.shortURLs)
                            /\ prev[id].UserID = last.userID
                         THEN [prev[id] EXCEPT !.IsDeleted = TRUE]
                         ELSE prev[id]

C3_Witness ==
    /\ last.op = "DeleteURLs"
    /\ \E id1, id2 \in Range(last.shortURLs) :
          /\ id1 \in DOMAIN prev /\ prev[id1].UserID = last.userID
          /\ ~prev[id1].IsDeleted /\ URLs[id1].IsDeleted
          /\ id2 \in DOMAIN prev /\ prev[id2].UserID # last.userID
          /\ ~URLs[id2].IsDeleted

\* C4: the owner listing shows live records only: GetURLsByUser(owner) is
\* exactly the shortID -> originalURL pairs of the owner's records that are
\* not soft-deleted.
C4_ListingLiveOnly ==
    \A o \in UserIDs :
        GetURLsByUser(o) =
            [k \in {i \in Live(URLs) : URLs[i].UserID = o} |->
                URLs[k].OriginalURL]

\* C5: the dedup scan ranges over live records: GetShortURLByOriginalURL(u)
\* returns (id, true) with id a live record of u when one exists, and
\* ("", false) when no live record has u.
C5_DedupScanLiveOnly ==
    \A u \in OriginalURLs :
        LET live == {k \in Live(URLs) : URLs[k].OriginalURL = u}
        IN  \A r \in GetShortURLByOriginalURL(u) :
                IF live = {} THEN r = <<NoString, FALSE>>
                ELSE r[2] /\ r[1] \in live

\* C6: GetStats returns total = the number of distinct short ids inserted so
\* far, deleted ones included (DeleteURLs leaves it unchanged), and users =
\* the number of distinct owners of the records, live and deleted.
C6_Stats ==
    /\ GetStats = <<Cardinality(inserted),
                    Cardinality({URLs[k].UserID : k \in DOMAIN URLs}), "nil">>
    /\ last.op = "DeleteURLs" => GetStats = GetStatsOf(prev)

C6_Witness ==
    /\ last.op = "DeleteURLs"
    /\ prev # URLs
    /\ GetStats = <<2, 2, "nil">>

\* C7 as stated: once a record is deleted, GetURL of its id returns
\* exists = true, deleted = true after every later store call.
C7_DeletedPermanent ==
    \A id \in DOMAIN prev :
        prev[id].IsDeleted => GetURL(id)[2] /\ GetURL(id)[3]

\* C7 amended: the flag is set only by DeleteURLs of the record's owner and
\* is cleared only by an AddURL/AddURLs that overwrites the id with a new
\* record; DeleteURLs never clears it and repeating it changes nothing.
C7_DeletedUntilOverwritten ==
    \A id \in DOMAIN prev :
        /\ id \in DOMAIN URLs
        /\ (~prev[id].IsDeleted /\ URLs[id].IsDeleted) =>
              /\ last.op = "DeleteURLs"
              /\ id \in Range(last.shortURLs)
              /\ prev[id].UserID = last.userID
        /\ (prev[id].IsDeleted /\ ~URLs[id].IsDeleted) =>
              /\ last.op \in {"AddURL", "AddURLs"}
              /\ id \in DOMAIN last.urls
        /\ (prev[id].IsDeleted /\ last.op = "DeleteURLs") =>
              URLs[id] = prev[id]

C7_Witness ==
    /\ last.op = "DeleteURLs"
    /\ \E id \in Range(last.shortURLs) :
          /\ id \in DOMAIN prev
          /\ prev[id].IsDeleted
          /\ prev[id].UserID = last.userID
          /\ URLs[id].IsDeleted

\* C8: unconditional overwrite. AddURL never returns an error, and the
\* record of its short id is afterwards exactly the written (originalURL,
\* userID), live, whatever record the id held before.
C8_Overwrite ==
    last.op = "AddURL" =>
        /\ last.err = "nil"
        /\ \A s \in DOMAIN last.urls :
              /\ s \in DOMAIN URLs
              /\ URLs[s] = [OriginalURL |-> last.urls[s],
                            UserID |-> last.userID,
                            IsDeleted |-> FALSE]

C8_Witness ==
    /\ last.op = "AddURL"
    /\ \E s \in DOMAIN last.urls :
          /\ s \in DOMAIN prev
          /\ prev[s].IsDeleted
          /\ prev[s].UserID # last.userID
          /\ prev[s].OriginalURL # last.urls[s]

\* C22: records are never physically removed: no call, DeleteURLs included,
\* takes a short id out of the store, so every id ever inserted is present
\* and GetURL(id) reports exists=true for it, and Count and the total of
\* GetStats never decrease.
C22_NeverShrinks ==
    /\ DOMAIN prev \subseteq DOMAIN URLs
    /\ \A id \in inserted : GetURL(id)[2]
    /\ Count >= Cardinality(DOMAIN prev)
    /\ GetStats[1] >= GetStatsOf(prev)[1]

\* A DeleteURLs by the owner on a record it had deleted before, every id
\* inserted so far still counted.
C22_Witness ==
    /\ last.op = "DeleteURLs"
    /\ \E id \in Range(last.shortURLs) :
          /\ id \in DOMAIN prev
          /\ prev[id].IsDeleted
          /\ prev[id].UserID = last.userID
          /\ id \in DOMAIN URLs
    /\ Count = NumShortIDs

\* ------------------------------------------------ BatchFileSaver: the claims

\* The lines of a file when every one of them is whole and newline-ended.
EndsWithNewLine(data) == data # <<>> /\ data[Len(data)] = NewLine[1]

WholeLines(data) ==
    /\ EndsWithNewLine(data)
    /\ \A i \in DOMAIN ScanLines(data, <<>>) : ValidLine(ScanLines(data, <<>>)[i])

\* f holds exactly the encoded entries of m, one whole line each.
CompleteSnapshotOf(f, m) ==
    /\ f.exists
    /\ WholeLines(f.data)
    /\ LET lines == ScanLines(f.data, <<>>)
       IN  /\ Len(lines) = Cardinality(DOMAIN m)
           /\ {<<lines[i][1][3], lines[i][2][2]>> : i \in DOMAIN lines}
                = {<<JSONString(s), JSONString(m[s])>> : s \in DOMAIN m}

\* A flush has begun and its return has not been followed by another call.
Flushing == pc \in {"create", "write", "deferred"} \/ ret # "none"

\* C9: snapshot replacement is atomic at every instant. The target path
\* holds no file, or whole lines only (never empty or cut content); and
\* during a flush it holds the file it held when the flush began or the
\* complete snapshot of the entries that were pending then.
C9_AtomicReplace ==
    /\ target.exists => WholeLines(target.data)
    /\ Flushing => \/ target = snapOld
                   \/ CompleteSnapshotOf(target, began)

\* C10: snapshot round trip. Right after a flush returned success,
\* LoadURLMappings of the target file yields the entries that were pending
\* when the flush began, and nothing is pending.
C10_SnapshotRoundTrip ==
    ret = "nil" =>
        /\ LoadURLMappings(target) = <<began, "nil">>
        /\ pendingURLs = EmptyMap

\* C13: a failed flush drops its batch. Right after forceSave returned an
\* error, whatever step failed, none of the entries that were pending when
\* it began is in the pending buffer.
C13_FailedFlushDropsBatch ==
    ret = "err" => \A k \in DOMAIN began : k \notin DOMAIN pendingURLs

\* C23: adding an entry to the pending buffer never waits for file I/O:
\* while a flush is creating, writing or renaming the file, a concurrent
\* BatchFileSaver.AddURL can complete.
C23_AddNeverWaits ==
    pc \in {"create", "write", "deferred"} =>
        ENABLED (\E s \in ShortIDs, u \in PendingURLValues :
                    SaverAddURL(s, u) /\ UNCHANGED exceptSaver)

\* C25: eventual persistence. With the ticker scheduled fairly and no I/O
\* error, an entry in the pending buffer is eventually out of the pending
\* buffer and in the target file, which then holds exactly the batch it was
\* flushed with; no entry stays pending forever.
C25_EventuallyPersisted ==
    \A s \in ShortIDs :
        (s \in DOMAIN pendingURLs) ~>
            /\ s \notin DOMAIN pendingURLs
            /\ s \in DOMAIN began
            /\ CompleteSnapshotOf(target, began)

\* A flush of every short id has returned: nothing is pending and the
\* target file holds them all.
C25_Witness ==
    /\ ret = "nil"
    /\ pendingURLs = EmptyMap
    /\ DOMAIN began = ShortIDs
    /\ CompleteSnapshotOf(target, began)

\* C26: every failed flush is observable. No thread has dropped the error
\* of a flush it ran, and a request whose flush failed has emitted a log
\* event for that failure.
C26_EveryFailureLogged ==
    /\ owed = {}
    /\ (resp.op \in {"ShortenURL", "ShortenURLBatch"} /\ resp.saveErr = "err")
          => SaveFailedWarning \in logs

\* C27: the shutdown flush is complete. Once the shutdown sequence has
\* finished with SaveURLMappings returning no error, the snapshot file
\* decodes to exactly the map GetAllURLs returns.
C27_ShutdownFlushComplete ==
    (phase = "stopped" /\ resp.err = "nil") =>
        LoadURLMappings(target) = <<GetAllURLs, "nil">>

\* C31: a flush with nothing pending is a no-op. A forceSave that finds the
\* pending buffer empty returns nil at once and leaves the target file, the
\* temporary file and the pending buffer as they are; saveToFile never runs
\* on an empty batch, so no snapshot is replaced by an empty file.
C31_EmptyFlushNoOp ==
    /\ [](pc \in {"create", "write", "deferred"} => began # EmptyMap)
    /\ [][(/\ pc = "idle"
           /\ pendingURLs = EmptyMap
           /\ pendingURLs' = EmptyMap
           /\ pc' # "down")
          => /\ ret' = "nil"
             /\ pc' = "idle"
             /\ UNCHANGED <<target, tmp, todo, writer, fileAt>>]_vars

\* A forceSave on an empty buffer has returned nil with a snapshot of
\* earlier entries in place, which is still there.
C31_Witness ==
    /\ pc = "idle"
    /\ ret = "nil"
    /\ began = EmptyMap
    /\ pendingURLs = EmptyMap
    /\ target.exists
    /\ target.data # <<>>
    /\ target = snapOld

\* ------------------------------------------------- the start: the claims

\* The short id and the URL a whole object line carries.
LineShort(line) == JSONUnquote(line[1][3])
LineURL(line) == JSONUnquote(line[2][2])

\* The (short id, URL) pairs of the object lines of f, the last line of a
\* short id standing for it.
EntriesOf(lines) ==
    LET valid == {i \in DOMAIN lines : ValidLine(lines[i])}
        lastOf == {i \in valid :
                     \A j \in valid :
                         LineShort(lines[j]) = LineShort(lines[i]) => j <= i}
    IN  {<<LineShort(lines[i]), LineURL(lines[i])>> : i \in lastOf}

Decoded(f) == EntriesOf(ScanLines(f.data, <<>>))

\* The map with the given (key, value) pairs.
MapOf(pairs) ==
    [k \in {e[1] : e \in pairs} |-> (CHOOSE e \in pairs : e[1] = k)[2]]

\* C11: startup replay. When requests begin to be served after a load
\* that succeeded, the store holds, for every entry decoded from the
\* snapshot file, a live record with that URL owned by "system"; and when
\* the file does not exist the load returns the empty map and no error, and
\* the store starts empty.
C11_StartupReplay ==
    /\ (phase = "serving" /\ loadErr = "nil") =>
          \A e \in Decoded(target) :
              /\ e[1] \in DOMAIN URLs
              /\ URLs[e[1]] = [OriginalURL |-> e[2], UserID |-> "system",
                               IsDeleted |-> FALSE]
    /\ (phase # "boot" /\ ~target.exists) =>
          /\ urlMappings = EmptyMap
          /\ loadErr = "nil"
          /\ DOMAIN URLs = {}

C11_Witness ==
    /\ phase = "serving"
    /\ loadErr = "nil"
    /\ Cardinality(Decoded(target)) >= 2
    /\ last.op = "AddURL"
    /\ Cardinality(DOMAIN URLs) >= 2

\* os.Open succeeded and the Scanner read the file to its end.
ReadToEnd ==
    /\ phase # "boot"
    /\ target.exists
    /\ loadErr # "open failed"
    /\ \A i \in DOMAIN target.data : target.data[i] # TooLong

\* A file that is one JSON array, and the objects in it.
IsArray(f) == f.data # <<>> /\ f.data[1] = ArrayOpen

ArrayObjects(f) ==
    LET sel == SelectSeq(f.data, LAMBDA u : u[1] \in {"head", "tail"})
    IN  [i \in 1..(Len(sel) \div 2) |-> <<sel[2 * i - 1], sel[2 * i]>>]

\* C15: dual-format decoding. LoadURLMappings of a file that is one JSON
\* array of mapping objects, and of a file of newline-delimited objects,
\* returns no error and the map short_url -> original_url of all the
\* objects in the file.
C15_DualFormat ==
    ReadToEnd =>
        /\ loadErr = "nil"
        /\ urlMappings = MapOf(IF IsArray(target)
                               THEN EntriesOf(ArrayObjects(target))
                               ELSE Decoded(target))

C12_WriterPerPath ==
    got.path # NoString => got.saver.filePath = got.path

\* --------------------------------------------------- Service: the claims

\* C14: persistence failures do not reach the caller. Right after a
\* ShortenURL or ShortenURLBatch whose save to the snapshot file failed has
\* returned, it has returned no error and one short URL per requested URL,
\* and each returned id resolves to a live record of the requesting user
\* whose URL is one the request wrote under that id.
C14_SaveFailureHidden ==
    (resp.op \in {"ShortenURL", "ShortenURLBatch"} /\ resp.saveErr = "err") =>
        /\ resp.err = "nil"
        /\ Len(resp.shortURLs) = Len(resp.urls)
        /\ \A i \in DOMAIN resp.shortURLs :
              LET id == resp.shortURLs[i]
              IN  /\ GetURL(id)[2]
                  /\ ~GetURL(id)[3]
                  /\ URLs[id].UserID = resp.user
                  /\ \E j \in DOMAIN resp.shortURLs :
                        /\ resp.shortURLs[j] = id
                        /\ GetURL(id)[1] = resp.urls[j]

C14_Witness ==
    /\ resp.op = "ShortenURLBatch"
    /\ resp.saveErr = "err"
    /\ resp.err = "nil"
    /\ Len(resp.shortURLs) = 2
    /\ resp.shortURLs[1] # resp.shortURLs[2]
    /\ GetURL(resp.shortURLs[1]) = <<resp.urls[1], TRUE, FALSE>>

\* -------------------------------------------------- GET /{id}: the claims

\* C17: GET /{id} answers 404 when the id has no record, 410 when the record
\* exists and is soft-deleted, and 307 with Location = the original URL only
\* when the record exists and is live; a soft-deleted URL is never served as
\* a redirect.
C17_TriState ==
    httpW.method = "GET" =>
        /\ httpW.record = <<>> => httpW.status = StatusNotFound
        /\ (httpW.record # <<>> /\ httpW.record[1].IsDeleted)
              => httpW.status = StatusGone
        /\ (httpW.record # <<>> /\ ~httpW.record[1].IsDeleted)
              => /\ httpW.status = StatusTemporaryRedirect
                 /\ httpW.location = httpW.record[1].OriginalURL
        /\ httpW.status = StatusTemporaryRedirect
              => (httpW.record # <<>> /\ ~httpW.record[1].IsDeleted)

\* The same outcomes, for the calls that did not panic: they hold once
\* handlers.InitService has run.
TriStateUnlessPanicked == httpW.panicked \/ C17_TriState

\* A call with serviceInstance set that answered 410 for a deleted record.
GoneServed ==
    /\ httpW.method = "GET"
    /\ httpW.status = StatusGone
    /\ httpW.record # <<>>

\* ------------------------------------------- the returned map: the claims

\* C18: the map GetURLsByUser or GetAllURLs returned holds what the call
\* returned and what its caller wrote into it since, whatever the store and
\* other callers did meanwhile; and a caller writing into its map leaves the
\* records of the store as they were.
C18_IndependentCopy ==
    /\ [](held # {} => (TheHeld \in DOMAIN maps /\ maps[TheHeld] = expect))
    /\ [][(held # {} /\ held' = held /\ expect' # expect) => URLs' = URLs]_vars

\* The caller holds a listing with an entry, has added a key of its own to
\* it, and the store has since deleted the record of the entry.
C18_Witness ==
    /\ held # {}
    /\ \E k \in DOMAIN expect : k \in DOMAIN URLs /\ URLs[k].IsDeleted
    /\ \E k \in DOMAIN expect : k \notin DOMAIN URLs
    /\ mapPool # {}

\* --------------------------------------------------- DBStorage: the claims

NewRow == Row(dbLast.urls[CHOOSE k \in DOMAIN dbLast.urls : TRUE],
              CHOOSE k \in DOMAIN dbLast.urls : TRUE, dbLast.userID, FALSE)

\* C19: DBStorage.AddURL for an original URL that already has a row returns
\* "URL already exists" and leaves the table unchanged; for an original URL
\* with no row it inserts exactly one live row and returns no error.
C19_ConditionalInsert ==
    dbLast.op = "AddURL" =>
        IF HasURL(dbPrev, NewRow.url)
        THEN dbLast.err = "URL already exists" /\ table = dbPrev
        ELSE dbLast.err = "nil" /\ table = dbPrev \cup {NewRow}

\* C19, amended: when the database executes the statement, AddURL for an
\* original URL that already has a row returns "URL already exists" and
\* leaves the table unchanged; for an original URL with no row and a short
\* id with no row it inserts exactly one live row and returns no error; for
\* an original URL with no row and a short id that has a row, and whenever
\* the statement fails, it returns the other error, "failed to add URL to
\* database", and leaves the table unchanged.
C19_ConditionalInsertUniqueShort ==
    dbLast.op = "AddURL" =>
        IF ~dbLast.ok
        THEN dbLast.err = "failed to add URL to database" /\ table = dbPrev
        ELSE IF HasURL(dbPrev, NewRow.url)
        THEN dbLast.err = "URL already exists" /\ table = dbPrev
        ELSE IF HasShortURL(dbPrev, NewRow.short_url)
        THEN dbLast.err = "failed to add URL to database" /\ table = dbPrev
        ELSE /\ dbLast.err = "nil"
             /\ table = dbPrev \cup {NewRow}
             /\ NewRow \notin dbPrev

\* An AddURL, executed, for an original URL whose row is soft-deleted and
\* belongs to another owner under another short id.
C19_Witness ==
    /\ dbLast.op = "AddURL"
    /\ dbLast.ok
    /\ dbLast.err = "URL already exists"
    /\ \E row \in table :
          /\ row.url = NewRow.url
          /\ row.short_url # NewRow.short_url
          /\ row.user_id # NewRow.user_id
          /\ row.is_deleted

DeletedRows(t) == {row \in t : row.is_deleted}

\* C20: DBStorage.DeleteURLs(ids, requester) marks only rows whose user_id
\* equals requester, and the owner listing and the reverse lookup of the
\* relational backend exclude soft-deleted rows, as the in-memory store is
\* specified to do.
C20_SameRulesAsMemory ==
    /\ dbLast.op = "DeleteURLs" =>
          \A row \in DeletedRows(table) :
             [row EXCEPT !.is_deleted = FALSE] \in dbPrev
                => row.user_id = dbLast.userID
    /\ \A o \in UserIDs : \A k \in DOMAIN DBGetURLsByUser(o) :
          ~\E row \in DeletedRows(table) : row.short_url = k
    /\ \A u \in OriginalURLs :
          DBGetShortURLByOriginalURL(u)[2]
             => ~\E row \in DeletedRows(table) : row.url = u

\* ------------------------------------ TrustedSubnetMiddleware: the claims

SubnetEmpty == trustedSubnet = <<>>
SubnetValid == ParseCIDR(trustedSubnet) # <<>>
HeaderMissing == gateW.clientIP = <<>>
IPParses == ParseIP(gateW.clientIP) # <<>>
IPInside ==
    /\ SubnetValid
    /\ IPParses
    /\ Masked(ParseIP(gateW.clientIP)[1], trustedSubnet[3])
          = Masked(trustedSubnet[2], trustedSubnet[3])

\* C21: the handler behind TrustedSubnetMiddleware is invoked if and only if
\* the subnet is non-empty valid CIDR and the X-Real-IP header is present,
\* parses as an IP and lies inside the subnet; an empty subnet, a missing
\* header, an unparsable IP or an IP outside the subnet yields 403 without
\* invoking the handler, and an invalid CIDR configuration yields 500.
C21_Gate ==
    gateW.seen =>
        /\ gateW.invoked <=> (~SubnetEmpty /\ SubnetValid /\ ~HeaderMissing
                                 /\ IPParses /\ IPInside)
        /\ (\/ SubnetEmpty
            \/ HeaderMissing
            \/ ~HeaderMissing /\ ~IPParses
            \/ SubnetValid /\ IPParses /\ ~IPInside)
              => (gateW.status = StatusForbidden /\ ~gateW.invoked)
        /\ (~SubnetEmpty /\ ~SubnetValid)
              => gateW.status = StatusInternalServerError

\* C21, amended: the handler is invoked if and only if the subnet is
\* non-empty valid CIDR and the header is present, parses as an IP and lies
\* inside the subnet. Otherwise the first of these that applies decides: an
\* empty subnet yields 403; a missing header yields 403; an invalid CIDR
\* configuration yields 500; an unparsable IP yields 403; an IP outside the
\* subnet yields 403. So an invalid CIDR yields 500 only for requests that
\* carry the header, and an unparsable IP yields 403 only under a valid CIDR.
C21_GateInOrder ==
    gateW.seen =>
        /\ gateW.invoked <=> (~SubnetEmpty /\ SubnetValid /\ ~HeaderMissing
                                 /\ IPParses /\ IPInside)
        /\ gateW.invoked => gateW.status = 0
        /\ ~gateW.invoked =>
              gateW.status =
                 IF SubnetEmpty \/ HeaderMissing THEN StatusForbidden
                 ELSE IF ~SubnetValid THEN StatusInternalServerError
                 ELSE StatusForbidden

\* A request let through from an address inside the subnet that is not the
\* subnet's own address, under a prefix shorter than the address.
C21_Witness ==
    /\ gateW.seen
    /\ gateW.invoked
    /\ SubnetValid
    /\ trustedSubnet[3] \in 1..(AddrBits - 1)
    /\ ParseIP(gateW.clientIP)[1] # trustedSubnet[2]

\* ------------------------------------------------ the two locks: the claims

HoldsStoreMu(t) == t \in storeMu.writer \cup storeMu.readers
HoldsSaverMu(t) == t \in saverMu

\* C24: no thread holds the store's map lock and the writer's pending-buffer
\* lock at the same time, on any path (single shorten, batch shorten,
\* periodic flush, shutdown save), and no interleaving deadlocks: while some
\* thread is on a path, some thread can take its next step.
C24_NeverNested ==
    /\ \A t \in Threads : ~(HoldsStoreMu(t) /\ HoldsSaverMu(t))
    /\ (\E t \in Threads : script[t] # <<>>) => \E t \in Threads : CanStep(t)

\* One request thread is inside forceSave, the other inside a store write,
\* main waits for the store and the periodic flush waits for the writer.
C24_Witness ==
    /\ saverMu = {"req1"}
    /\ storeMu.writer = {"req2"}
    /\ script["main"] # <<>> /\ ~CanStep("main")
    /\ script["tick"] # <<>> /\ ~CanStep("tick")
    /\ Len(script["req1"]) = 1

\* An entry of the batch of the last call cannot be inserted: its URL or its
\* short id is in the table, or another entry of the batch has its URL.
BatchConflicts ==
    \E k \in DOMAIN dbLast.urls :
        \/ HasURL(dbPrev, dbLast.urls[k])
        \/ HasShortURL(dbPrev, k)
        \/ \E j \in DOMAIN dbLast.urls : j # k /\ dbLast.urls[j] = dbLast.urls[k]

BatchRows ==
    {Row(dbLast.urls[k], k, dbLast.userID, FALSE) : k \in DOMAIN dbLast.urls}

\* C29: the relational batch insert is all-or-nothing. When an entry of a
\* DBStorage.AddURLs batch cannot be inserted, or the database fails, an
\* error is returned; after an error no entry of the batch is stored; after
\* success every entry of the batch is stored.
C29_AllOrNothing ==
    dbLast.op = "AddURLs" =>
        /\ (BatchConflicts \/ ~dbLast.ok) => dbLast.err # "nil"
        /\ dbLast.err # "nil" => table = dbPrev
        /\ dbLast.err = "nil" => table = dbPrev \cup BatchRows

\* A batch of two entries failed on one of them while the other could have
\* been inserted, and the table is as it was.
C29_Witness ==
    /\ dbLast.op = "AddURLs"
    /\ dbLast.ok
    /\ dbLast.err # "nil"
    /\ Cardinality(DOMAIN dbLast.urls) = 2
    /\ \E k \in DOMAIN dbLast.urls :
          ~HasURL(dbPrev, dbLast.urls[k]) /\ ~HasShortURL(dbPrev, k)
    /\ \E k \in DOMAIN dbLast.urls : HasShortURL(dbPrev, k)
    /\ table = dbPrev

\* ------------------------------------- the service over DBStorage: the claims

\* The id ShortenURL generated and the URL it was asked to shorten.
Generated == CHOOSE k \in DOMAIN dbLast.urls : TRUE
Requested == dbLast.urls[Generated]

\* The short id the table held for the requested URL when the call began.
StoredBefore == (CHOOSE row \in dbPrev : row.url = Requested).short_url

\* The response carries the id already stored, AlreadyExists true and 409,
\* and the call has stored nothing.
AnsweredExisting ==
    /\ resp.err = "nil"
    /\ resp.AlreadyExists
    /\ resp.shortURLs = <<StoredBefore>>
    /\ PostStatus(resp) = StatusConflict
    /\ table = dbPrev

\* The response carries the new id, AlreadyExists false and 201, and the
\* new id resolves to the requested URL.
AnsweredNew ==
    /\ resp.err = "nil"
    /\ ~resp.AlreadyExists
    /\ resp.shortURLs = <<Generated>>
    /\ PostStatus(resp) = StatusCreated
    /\ DBGetURL(Generated) = <<Requested, TRUE, FALSE>>

\* The response is an error, answered with 500, and the call has stored
\* nothing.
AnsweredError ==
    /\ resp.err # "nil"
    /\ PostStatus(resp) = StatusInternalServerError
    /\ table = dbPrev

\* A ShortenURL call that does not reach the save leaves the pending buffer
\* and the files alone.
NotQueued == req' = NoReq /\ UNCHANGED <<saverVars, globalSaver, got>>

\* C28 as stated: when the backend reports "URL already exists", ShortenURL
\* returns the stored short id with AlreadyExists true (409) and stores
\* nothing; otherwise it returns the new id with AlreadyExists false (201)
\* and that id resolves to the requested URL.
C28_ExistingOrNew ==
    resp.op = "ShortenURL" =>
        IF dbLast.err = "URL already exists"
        THEN AnsweredExisting
        ELSE AnsweredNew

\* C28 amended: "URL already exists" is answered with the stored short id,
\* AlreadyExists true and 409, or with an error when the lookup of that id
\* fails; any other error of the backend is answered with an error (500);
\* in all these cases nothing is stored and nothing is queued for
\* persistence. After a nil error the new id is queued, and the response
\* carries it with AlreadyExists false (201) and it resolves to the
\* requested URL.
C28_ExistingNewOrError ==
    /\ [](resp.op = "ShortenURL" =>
            CASE dbLast.err = "URL already exists" ->
                    AnsweredExisting \/ AnsweredError
              [] dbLast.err = "nil" -> AnsweredNew
              [] OTHER -> AnsweredError)
    /\ [][served' # served =>
            IF dbLast'.err = "nil"
            THEN /\ req'.step = "add"
                 /\ req'.urls = Generated' :> Requested'
            ELSE NotQueued]_vars

\* A second request for a URL already in the table was answered with the
\* id the first request stored, another id having been generated.
C28_Witness ==
    /\ resp.op = "ShortenURL"
    /\ dbLast.err = "URL already exists"
    /\ AnsweredExisting
    /\ Generated # StoredBefore
    /\ target.exists

\* --------------------------------- DELETE /api/user/urls: the claims

\* C30: the asynchronous delete completes. A DELETE request answered with
\* 202 is followed by a state where DeleteURLs has been applied to the store
\* for it and both goroutines of the handler have ended.
C30_DeleteCompletes ==
    (del.status = StatusAccepted) ~>
        (del.applied /\ del.g1 = "done" /\ del.g2 = "done")

\* The same for a handler whose service has been wired by InitService.
DeleteCompletesWhenWired ==
    (del.status = StatusAccepted /\ serviceInstance = "set") ~>
        (del.applied /\ del.g1 = "done" /\ del.g2 = "done")

\* ------------------------------------------- the snapshot over time: the claims

\* The short ids of the whole object lines of f.
PersistedIDs(f) == {e[1] : e \in Decoded(f)}

\* C32: the snapshot never loses persisted mappings. Right after a flush
\* of some entries returned success, every short id that the target file
\* held in whole lines when the flush began is still in the target file.
C32_NeverLosesMappings ==
    (ret = "nil" /\ began # EmptyMap /\ snapOld.exists
        /\ WholeLines(snapOld.data)) =>
        PersistedIDs(snapOld) \subseteq PersistedIDs(target)

\* C33: deletion survives a restart. Once the restarted process serves
\* requests, GetURL of a short id that was soft-deleted when the process
\* before it shut down never returns exists = true with deleted = false.
C33_DeletionSurvivesRestart ==
    phase = "serving" =>
        \A k \in goneBefore : ~(GetURL(k)[2] /\ ~GetURL(k)[3])

\* ------------------------------------------------ issued ids: the claims

\* The short ids of the last response, when it is a successful response of
\* ShortenURL or ShortenURLBatch.
Issued ==
    IF resp.op \in {"ShortenURL", "ShortenURLBatch"} /\ resp.err = "nil"
    THEN {resp.shortURLs[i] : i \in DOMAIN resp.shortURLs}
    ELSE {}

\* C34: issued short ids are stable. No step of a later shorten request,
\* whatever id it generates, changes the URL, the owner or the deleted flag
\* of the record of a short id that the last response returned.
C34_IssuedIDsStable ==
    [][\A k \in Issued :
          k \in DOMAIN URLs => (k \in DOMAIN URLs' /\ URLs'[k] = URLs[k])]_vars

\* C35: batch results resolve. Every short URL of a successful
\* ShortenURLBatch response is the short id of a row whose URL is the one
\* requested at the same place of the batch, items that met "URL already
\* exists" included.
C35_BatchResultsResolve ==
    (resp.op = "ShortenURLBatch" /\ resp.err = "nil") =>
        \A i \in DOMAIN resp.shortURLs :
            /\ DBGetURL(resp.shortURLs[i])[2]
            /\ DBGetURL(resp.shortURLs[i])[1] = resp.urls[i]

\* --------------------------------- AddURLs beside a reader: the claims

\* The store once the AddURLs call last begun has put all its entries.
AfterBatch == AddURLsLoop(prev, last.urls, DOMAIN last.urls, last.userID)

\* C36: the in-memory batch insert is atomic to readers. No read is inside
\* s.mu while AddURLs puts its entries, and what a GetURL, GetURLsByUser,
\* Count or GetStats beside an AddURLs call returned is what it returns on
\* the store without any entry of the batch or on the store with all of
\* them, never on a store with some of them only.
C36_BatchAtomicToReaders ==
    /\ adding.busy => storeMu.readers = {}
    /\ seen.pc = "done" =>
          seen.result \in {ReadOf(seen.op, seen.arg, prev),
                           ReadOf(seen.op, seen.arg, AfterBatch)}

\* GetStats has returned the statistics of the whole batch after an AddURLs
\* call that put two entries into an empty store.
C36_Witness ==
    /\ seen.op = "GetStats"
    /\ seen.pc = "done"
    /\ Cardinality(DOMAIN last.urls) = 2
    /\ prev = [k \in {} |-> URLInfo(NoString, NoString)]
    /\ seen.result = GetStatsOf(AfterBatch)
    /\ seen.result # GetStatsOf(prev)

====
